---- MODULE Spec2Model ----
(***************************************************************************)
(* SettleMe (server.js): the report export engine.                         *)
(*                                                                         *)
(* Strings are sequences of Unicode code points (all of them in the Basic  *)
(* Multilingual Plane and none a surrogate, so that a JavaScript string's  *)
(* length is the length of the sequence).  A Buffer is a sequence of       *)
(* bytes.  JSON values are records [t |-> tag, s |-> payload]:             *)
(*   "str"   s = the code points                                           *)
(*   "num"   s = <<c>>, the number c / 100                                 *)
(*   "null"  s = <<>>          (JSON null)                                 *)
(*   "undef" s = <<>>          (the property is absent)                    *)
(***************************************************************************)
EXTENDS Integers, Sequences, FiniteSets

VARIABLES
  data,     \* the content of data.json: [users, groups]
  now,      \* the wall clock, in minutes
  resp,     \* the response to the last request served
  args,     \* the arguments of the pure function under check
  result,   \* what the function returned for args
  pending   \* the requests whose handler waits at `await parseRequestBody`

vars == <<data, now, resp, args, result, pending>>

None == [t |-> "none"]

(***************************************************************************)
(* JSON values                                                             *)
(***************************************************************************)
Str(s) == [t |-> "str", s |-> s]
Num(c) == [t |-> "num", s |-> <<c>>]
Null == [t |-> "null", s |-> <<>>]
Undefined == [t |-> "undef", s |-> <<>>]

\* x != null  (false for null and for undefined)
NotNullish(v) == v.t \notin {"null", "undef"}

(***************************************************************************)
(* String primitives                                                       *)
(***************************************************************************)
\* the concatenation of ss[lo], ..., ss[hi]
RECURSIVE FlattenRange(_, _, _)
FlattenRange(ss, lo, hi) ==
  IF lo > hi THEN <<>>
  ELSE IF lo = hi THEN ss[lo]
  ELSE FlattenRange(ss, lo, (lo + hi) \div 2)
       \o FlattenRange(ss, (lo + hi) \div 2 + 1, hi)

Flatten(ss) == FlattenRange(ss, 1, Len(ss))

\* Array.prototype.join
Join(ss, sep) ==
  Flatten([i \in DOMAIN ss |-> IF i = 1 THEN ss[i] ELSE sep \o ss[i]])

\* the decimal digits of a natural number
RECURSIVE Digits(_)
Digits(n) == IF n < 10 THEN <<48 + n>> ELSE Digits(n \div 10) \o <<48 + (n % 10)>>

\* String(n) / template interpolation of an integer
IntToString(n) == IF n < 0 THEN <<45>> \o Digits(0 - n) ELSE Digits(n)

Max(a, b) == IF a > b THEN a ELSE b

\* String.prototype.replace(/c/g, repl)
ReplaceAll(s, c, repl) ==
  Flatten([i \in DOMAIN s |-> IF s[i] = c THEN repl ELSE <<s[i]>>])

\* String.prototype.padEnd(n): pads with spaces up to n UTF-16 units
padEnd(s, n) == s \o [k \in 1..Max(0, n - Len(s)) |-> 32]

\* String.prototype.padStart(n, '0')
padStart0(s, n) == [k \in 1..Max(0, n - Len(s)) |-> 48] \o s

\* the UTF-8 encoding of one code point
Utf8Bytes(cp) ==
  IF cp < 128 THEN <<cp>>
  ELSE IF cp < 2048 THEN <<192 + (cp \div 64), 128 + (cp % 64)>>
  ELSE <<224 + (cp \div 4096), 128 + ((cp \div 64) % 64), 128 + (cp % 64)>>

\* Buffer.from(str, 'utf8')
Utf8(s) == Flatten([i \in DOMAIN s |-> Utf8Bytes(s[i])])

\* s.length, which a slip would use for a byte count
CharLength(s) == Len(s)

\* Buffer.byteLength(str, 'utf8')
byteLength(s) == Len(Utf8(s))

(***************************************************************************)
(* The fixed text of the document                                          *)
(***************************************************************************)
\* '%PDF-1.4\n'
PdfHeader ==
  <<37, 80, 68, 70, 45, 49, 46, 52, 10>>

\* '1 0 obj\n<< /Type /Catalog /Pages 2 0 R >>\nendobj\n'
Obj1 ==
  <<49, 32, 48, 32, 111, 98, 106, 10, 60, 60, 32, 47, 84, 121, 112, 101, 32,
  47, 67, 97, 116, 97, 108, 111, 103, 32, 47, 80, 97, 103, 101, 115, 32, 50,
  32, 48, 32, 82, 32, 62, 62, 10, 101, 110, 100, 111, 98, 106, 10>>

\* '2 0 obj\n<< /Type /Pages /Kids [3 0 R] /Count 1 >>\nendobj\n'
Obj2 ==
  <<50, 32, 48, 32, 111, 98, 106, 10, 60, 60, 32, 47, 84, 121, 112, 101, 32,
  47, 80, 97, 103, 101, 115, 32, 47, 75, 105, 100, 115, 32, 91, 51, 32, 48,
  32, 82, 93, 32, 47, 67, 111, 117, 110, 116, 32, 49, 32, 62, 62, 10, 101,
  110, 100, 111, 98, 106, 10>>

\* '3 0 obj\n<< /Type /Page /Parent 2 0 R /MediaBox [0 0 612 792] /Contents 4 0 R /Resources << /Font << /F1 5 0 R >> >> >>\nendobj\n'
Obj3 ==
  <<51, 32, 48, 32, 111, 98, 106, 10, 60, 60, 32, 47, 84, 121, 112, 101, 32,
  47, 80, 97, 103, 101, 32, 47, 80, 97, 114, 101, 110, 116, 32, 50, 32, 48,
  32, 82, 32, 47, 77, 101, 100, 105, 97, 66, 111, 120, 32, 91, 48, 32, 48, 32,
  54, 49, 50, 32, 55, 57, 50, 93, 32, 47, 67, 111, 110, 116, 101, 110, 116,
  115, 32, 52, 32, 48, 32, 82, 32, 47, 82, 101, 115, 111, 117, 114, 99, 101,
  115, 32, 60, 60, 32, 47, 70, 111, 110, 116, 32, 60, 60, 32, 47, 70, 49, 32,
  53, 32, 48, 32, 82, 32, 62, 62, 32, 62, 62, 32, 62, 62, 10, 101, 110, 100,
  111, 98, 106, 10>>

\* '4 0 obj\n<< /Length '
Obj4Head ==
  <<52, 32, 48, 32, 111, 98, 106, 10, 60, 60, 32, 47, 76, 101, 110, 103, 116,
  104, 32>>

\* ' >>\nstream\n'
Obj4Mid ==
  <<32, 62, 62, 10, 115, 116, 114, 101, 97, 109, 10>>

\* 'endstream\nendobj\n'
Obj4Tail ==
  <<101, 110, 100, 115, 116, 114, 101, 97, 109, 10, 101, 110, 100, 111, 98,
  106, 10>>

\* '5 0 obj\n<< /Type /Font /Subtype /Type1 /BaseFont /Courier >>\nendobj\n'
Obj5 ==
  <<53, 32, 48, 32, 111, 98, 106, 10, 60, 60, 32, 47, 84, 121, 112, 101, 32,
  47, 70, 111, 110, 116, 32, 47, 83, 117, 98, 116, 121, 112, 101, 32, 47, 84,
  121, 112, 101, 49, 32, 47, 66, 97, 115, 101, 70, 111, 110, 116, 32, 47, 67,
  111, 117, 114, 105, 101, 114, 32, 62, 62, 10, 101, 110, 100, 111, 98, 106,
  10>>

\* 'xref\n0 6\n0000000000 65535 f \n'
XrefHead ==
  <<120, 114, 101, 102, 10, 48, 32, 54, 10, 48, 48, 48, 48, 48, 48, 48, 48,
  48, 48, 32, 54, 53, 53, 51, 53, 32, 102, 32, 10>>

\* ' 00000 n \n'
XrefEntryTail ==
  <<32, 48, 48, 48, 48, 48, 32, 110, 32, 10>>

\* 'trailer\n<< /Size 6 /Root 1 0 R >>\n'
TrailerText ==
  <<116, 114, 97, 105, 108, 101, 114, 10, 60, 60, 32, 47, 83, 105, 122, 101,
  32, 54, 32, 47, 82, 111, 111, 116, 32, 49, 32, 48, 32, 82, 32, 62, 62, 10>>

\* 'startxref\n'
StartXref ==
  <<115, 116, 97, 114, 116, 120, 114, 101, 102, 10>>

\* '\n%%EOF'
EofMark ==
  <<10, 37, 37, 69, 79, 70>>

\* 'BT\n/F1 11 Tf\n'
ContentHead ==
  <<66, 84, 10, 47, 70, 49, 32, 49, 49, 32, 84, 102, 10>>

\* 'ET\n'
ContentTail ==
  <<69, 84, 10>>

\* ' Td ('
TdOpen ==
  <<32, 84, 100, 32, 40>>

\* ') Tj\n'
TjClose ==
  <<41, 32, 84, 106, 10>>

\* ' 0 obj'
ObjKeyword ==
  <<32, 48, 32, 111, 98, 106>>

\* String(null)
StrNull ==
  <<110, 117, 108, 108>>

\* String(undefined)
StrUndefined ==
  <<117, 110, 100, 101, 102, 105, 110, 101, 100>>

\* 'Nombre'
Nombre ==
  <<78, 111, 109, 98, 114, 101>>

\* 'Entrada'
Entrada ==
  <<69, 110, 116, 114, 97, 100, 97>>

\* 'Salida'
Salida ==
  <<83, 97, 108, 105, 100, 97>>

\* 'Horas'
Horas ==
  <<72, 111, 114, 97, 115>>

\* 'Fecha'
Fecha ==
  <<70, 101, 99, 104, 97>>

\* 'Categori'a' (i' is U+00ED)
Categoria ==
  <<67, 97, 116, 101, 103, 111, 114, 237, 97>>

\* 'Descripcio'n' (o' is U+00F3)
Descripcion ==
  <<68, 101, 115, 99, 114, 105, 112, 99, 105, 243, 110>>

\* 'Monto'
Monto ==
  <<77, 111, 110, 116, 111>>

\* 'Grupo'
Grupo ==
  <<71, 114, 117, 112, 111>>

\* 'Horas de '
HorasDe ==
  <<72, 111, 114, 97, 115, 32, 100, 101, 32>>

\* 'Recibos de '
RecibosDe ==
  <<82, 101, 99, 105, 98, 111, 115, 32, 100, 101, 32>>

\* 'Horas del grupo '
HorasDelGrupo ==
  <<72, 111, 114, 97, 115, 32, 100, 101, 108, 32, 103, 114, 117, 112, 111,
  32>>

\* 'Recibos del grupo '
RecibosDelGrupo ==
  <<82, 101, 99, 105, 98, 111, 115, 32, 100, 101, 108, 32, 103, 114, 117, 112,
  111, 32>>

\* 'Usuario no encontrado'
UsuarioNoEncontrado ==
  <<85, 115, 117, 97, 114, 105, 111, 32, 110, 111, 32, 101, 110, 99, 111, 110,
  116, 114, 97, 100, 111>>

\* 'Grupo no encontrado'
GrupoNoEncontrado ==
  <<71, 114, 117, 112, 111, 32, 110, 111, 32, 101, 110, 99, 111, 110, 116,
  114, 97, 100, 111>>

\* 'Invalid Date'
InvalidDate ==
  <<73, 110, 118, 97, 108, 105, 100, 32, 68, 97, 116, 101>>

\* '/1/26, ': the month and the year of every instant, then the separator
DateTail ==
  <<47, 49, 47, 50, 54, 44, 32>>

\* '{"message":"Endpoint no encontrado"}'
EndpointNoEncontrado ==
  <<123, 34, 109, 101, 115, 115, 97, 103, 101, 34, 58, 34, 69, 110, 100, 112,
  111, 105, 110, 116, 32, 110, 111, 32, 101, 110, 99, 111, 110, 116, 114, 97,
  100, 111, 34, 125>>

\* '{"message":"Error interno del servidor"}'
ErrorInterno ==
  <<123, 34, 109, 101, 115, 115, 97, 103, 101, 34, 58, 34, 69, 114, 114, 111,
  114, 32, 105, 110, 116, 101, 114, 110, 111, 32, 100, 101, 108, 32, 115, 101,
  114, 118, 105, 100, 111, 114, 34, 125>>

(***************************************************************************)
(* generatePDF(title, headers, rows)                                       *)
(***************************************************************************)
\* String(v)
String(v) ==
  CASE v.t = "str" -> v.s
    [] v.t = "num" ->
         IF v.s[1] % 100 = 0 THEN IntToString(v.s[1] \div 100)
         ELSE (IF v.s[1] < 0 THEN <<45>> ELSE <<>>)
              \o Digits((IF v.s[1] < 0 THEN 0 - v.s[1] ELSE v.s[1]) \div 100) \o <<46>>
              \o (LET f == (IF v.s[1] < 0 THEN 0 - v.s[1] ELSE v.s[1]) % 100
                  IN IF f % 10 = 0 THEN Digits(f \div 10)
                     ELSE <<48 + (f \div 10), 48 + (f % 10)>>)
    [] v.t = "null" -> StrNull
    [] OTHER -> StrUndefined

\* escapeText with the parentheses escaped before the backslashes
escapeTextParensFirst(text) ==
  ReplaceAll(ReplaceAll(ReplaceAll(text, 40, <<92, 40>>), 41, <<92, 41>>),
             92, <<92, 92>>)

\* escapeText: backslashes first, then '(' and then ')'
escapeText(text) ==
  ReplaceAll(ReplaceAll(ReplaceAll(text, 92, <<92, 92>>), 40, <<92, 40>>),
             41, <<92, 41>>)

\* cell != null ? String(cell) : ''
displayCell(cell) == IF NotNullish(cell) THEN String(cell) ELSE <<>>

\* row[i], undefined beyond the end of the row
At(row, i) == IF i \in DOMAIN row THEN row[i] ELSE Undefined

RECURSIVE MaxOver(_, _, _)
MaxOver(rows, i, max) ==
  IF rows = <<>> THEN max
  ELSE MaxOver(Tail(rows), i, Max(max, Len(displayCell(At(Head(rows), i)))))

\* the widths taken from the data rows alone, the headers not counted
maxLengthsRowsOnly(headers, rows) ==
  [i \in DOMAIN headers |-> MaxOver(rows, i, 0)]

maxLengths(headers, rows) ==
  [i \in DOMAIN headers |-> MaxOver(rows, i, Len(headers[i]))]

\* value.padEnd(maxLengths[i] + 2); maxLengths[i] is undefined beyond the
\* headers, the target length is then NaN and nothing is padded
padCell(s, ml, i) == IF i \in DOMAIN ml THEN padEnd(s, ml[i] + 2) ELSE s

headerLine(headers, ml) ==
  Flatten([i \in DOMAIN headers |-> padCell(headers[i], ml, i)])

rowLine(row, ml) ==
  Flatten([i \in DOMAIN row |-> padCell(displayCell(row[i]), ml, i)])

pdfLines(title, headers, rows) ==
  LET ml == maxLengths(headers, rows)
  IN <<title, headerLine(headers, ml)>> \o [k \in DOMAIN rows |-> rowLine(rows[k], ml)]

\* let y = 770
startY == 770

\* y -= 14
lineStep == 14

\* `72 ${y} Td (${escapeText(line)}) Tj\n` for each line
pdfContent(lines) ==
  ContentHead
  \o Flatten([k \in DOMAIN lines |->
        <<55, 50, 32>> \o IntToString(startY - lineStep * (k - 1)) \o TdOpen
        \o escapeText(lines[k]) \o TjClose])
  \o ContentTail

\* the measure addObject takes of the text written so far
pdfOffset(pdf) == byteLength(pdf)

\* the count of characters of the content, not of its bytes
contentCharLength(content) == Len(content)

\* const len = Buffer.from(content, 'utf8').length
contentLength(content) == byteLength(content)

\* the objects, in the order of the addObject calls
pdfObjects(content) ==
  << Obj1, Obj2, Obj3,
     Obj4Head \o IntToString(contentLength(content)) \o Obj4Mid \o content \o Obj4Tail,
     Obj5 >>

\* addObject, called for objs[1..n]: the text and the offsets pushed
RECURSIVE addObjects(_, _)
addObjects(objs, n) ==
  IF n = 0 THEN [pdf |-> PdfHeader, offsets |-> <<>>]
  ELSE LET before == addObjects(objs, n - 1)
       IN [pdf |-> before.pdf \o objs[n],
           offsets |-> Append(before.offsets, pdfOffset(before.pdf))]

\* the count of characters written before the cross-reference section
xrefCharOffset(pdf) == Len(pdf)

\* const xrefOffset = Buffer.byteLength(pdf, 'utf8')
pdfXrefOffset(pdf) == byteLength(pdf)

generatePDF(title, headers, rows) ==
  LET lines == pdfLines(title, headers, rows)
      content == pdfContent(lines)
      body == addObjects(pdfObjects(content), 5)
      xrefOffset == pdfXrefOffset(body.pdf)
      pdf == body.pdf \o XrefHead
             \o Flatten([n \in DOMAIN body.offsets |->
                   padStart0(IntToString(body.offsets[n]), 10) \o XrefEntryTail])
             \o TrailerText \o StartXref \o IntToString(xrefOffset) \o EofMark
  IN [lines |-> lines, content |-> content, buffer |-> Utf8(pdf)]

(***************************************************************************)
(* escapeCsv and the delimited-text rendering                              *)
(***************************************************************************)
\* /[",\n]/.test(str)
needsQuoting(str) == \E i \in DOMAIN str : str[i] \in {34, 44, 10}

\* escapeCsv that wraps the cell but leaves its double quotes single
escapeCsvNoDoubling(value) ==
  IF needsQuoting(String(value)) THEN <<34>> \o String(value) \o <<34>>
  ELSE String(value)

escapeCsv(value) ==
  IF needsQuoting(String(value))
  THEN <<34>> \o ReplaceAll(String(value), 34, <<34, 34>>) \o <<34>>
  ELSE String(value)

\* r.map(escapeCsv) for every row
escapeRows(rows) ==
  [r \in DOMAIN rows |-> [c \in DOMAIN rows[r] |-> escapeCsv(rows[r][c])]]

\* rows.map(r => r.map(escapeCsv).join(',')).join('\n')
renderCsv(rows) ==
  Join([r \in DOMAIN rows |-> Join(escapeRows(rows)[r], <<44>>)], <<10>>)

(***************************************************************************)
(* Dates and numbers.  An instant is a number of minutes since             *)
(* 2026-01-01T00:00 local time, within January 2026; Iso(m) is the ISO     *)
(* string stored for it.                                                   *)
(***************************************************************************)
Iso(m) == [t |-> "iso", s |-> <<m>>]

\* the truthiness of a value (v ? ... , v || ..., !v)
Truthy(v) ==
  CASE v.t = "iso" -> TRUE
    [] v.t = "str" -> v.s # <<>>
    [] v.t = "num" -> v.s[1] # 0
    [] OTHER -> FALSE

\* new Date(iso), in minutes
Date(iso) == iso.s[1]

\* toLocaleString('es-ES', { dateStyle: 'short', timeStyle: 'short' }): d/M/yy, H:mm
formatDateTime(iso) ==
  IF iso.t # "iso" THEN InvalidDate
  ELSE Digits(Date(iso) \div 1440 + 1) \o DateTail
       \o Digits((Date(iso) % 1440) \div 60) \o <<58>>
       \o <<48 + ((Date(iso) % 60) \div 10), 48 + ((Date(iso) % 60) % 10)>>

\* (end - start) / (1000 * 60 * 60): the hours, as a fraction <<minutes, 60>>
calcHours(startIso, endIso) == <<Date(endIso) - Date(startIso), 60>>

\* Number.prototype.toFixed(2) of the fraction q[1] / q[2]: the sign, then the
\* nearest count of hundredths (the larger when two are as near)
toFixed2(q) ==
  LET abs == IF q[1] < 0 THEN 0 - q[1] ELSE q[1]
      h == (200 * abs + q[2]) \div (2 * q[2])
  IN (IF q[1] < 0 THEN <<45>> ELSE <<>>)
     \o Digits(h \div 100) \o <<46>> \o <<48 + ((h % 100) \div 10), 48 + (h % 10)>>

\* String.prototype.toLowerCase
toLowerCase(s) == [i \in DOMAIN s |-> IF s[i] \in 65..90 THEN s[i] + 32 ELSE s[i]]

\* a.localeCompare(b) for lower-case ASCII letters and spaces: the first
\* difference decides, then the length
localeCompare(a, b) ==
  LET diff == { i \in 1..(IF Len(a) < Len(b) THEN Len(a) ELSE Len(b)) : a[i] # b[i] }
  IN IF diff = {}
     THEN (IF Len(a) < Len(b) THEN 0 - 1 ELSE IF Len(a) > Len(b) THEN 1 ELSE 0)
     ELSE (IF a[CHOOSE i \in diff : \A j \in diff : i <= j]
                < b[CHOOSE i \in diff : \A j \in diff : i <= j] THEN 0 - 1 ELSE 1)

\* Array.prototype.sort(compare) on n items, as the order of their indices;
\* after[i][j] is compare(item i, item j) > 0.  The sort is stable: item n
\* moves left past the items that compare greater, and no further.
RECURSIVE sortIndices(_, _)
sortIndices(n, after) ==
  IF n = 0 THEN <<>>
  ELSE LET sorted == sortIndices(n - 1, after)
           stay == { k \in DOMAIN sorted : ~after[sorted[k]][n] }
           p == IF stay = {} THEN 0 ELSE CHOOSE k \in stay : \A j \in stay : j <= k
       IN SubSeq(sorted, 1, p) \o <<n>> \o SubSeq(sorted, p + 1, Len(sorted))

(***************************************************************************)
(* The store: data.json                                                    *)
(***************************************************************************)
\* data.users.find(u => u.id === id), as an index; 0 when there is none
userIndex(d, id) ==
  IF \E i \in DOMAIN d.users : d.users[i].id = id
  THEN CHOOSE i \in DOMAIN d.users :
         d.users[i].id = id /\ \A j \in DOMAIN d.users : d.users[j].id = id => i <= j
  ELSE 0

\* data.groups.find(g => g.id === id), as an index; 0 when there is none
groupIndex(d, id) ==
  IF \E i \in DOMAIN d.groups : d.groups[i].id = id
  THEN CHOOSE i \in DOMAIN d.groups :
         d.groups[i].id = id /\ \A j \in DOMAIN d.groups : d.groups[j].id = id => i <= j
  ELSE 0

\* `${user.firstName} ${user.lastName}`
fullName(user) == user.firstName \o <<32>> \o user.lastName

(***************************************************************************)
(* Rows.  A row is [owner, thrown, cells]: the user it was built for,      *)
(* whether building it threw a TypeError, and its cells.                   *)
(***************************************************************************)
\* the cells of a time entry with a duration of 0.00 for an entry still open
timeCellsZeroWhenOpen(name, t) ==
  << Str(name),
     Str(IF Truthy(t.clockIn) THEN formatDateTime(t.clockIn) ELSE <<>>),
     Str(IF Truthy(t.clockOut) THEN formatDateTime(t.clockOut) ELSE <<>>),
     Str(IF Truthy(t.clockOut) THEN toFixed2(calcHours(t.clockIn, t.clockOut))
         ELSE <<48, 46, 48, 48>>) >>

timeCells(name, t) ==
  << Str(name),
     Str(IF Truthy(t.clockIn) THEN formatDateTime(t.clockIn) ELSE <<>>),
     Str(IF Truthy(t.clockOut) THEN formatDateTime(t.clockOut) ELSE <<>>),
     Str(IF Truthy(t.clockOut) THEN toFixed2(calcHours(t.clockIn, t.clockOut)) ELSE <<>>) >>

\* (r.note || '').replace(/\n/g, ' ') throws when the note is truthy and no string
noteThrows(r) == Truthy(r.note) /\ r.note.t # "str"

noteCell(r) == IF Truthy(r.note) THEN ReplaceAll(r.note.s, 10, <<32>>) ELSE <<>>

\* r.amount.toFixed(2) throws when the amount is neither nullish nor a number
amountThrows(r) == NotNullish(r.amount) /\ r.amount.t # "num"

\* r.amount !== null && r.amount !== undefined ? r.amount.toFixed(2) : ''
amountCell(r) == IF NotNullish(r.amount) THEN toFixed2(<<r.amount.s[1], 100>>) ELSE <<>>

\* the cells of a receipt without the amount column
receiptCellsNoAmount(name, r) ==
  << Str(name), Str(formatDateTime(r.date)), r.category, Str(noteCell(r)) >>

receiptCells(name, r) ==
  << Str(name), Str(formatDateTime(r.date)), r.category, Str(noteCell(r)),
     Str(amountCell(r)) >>

timeRow(user, prefix, t) ==
  [owner |-> user.id, thrown |-> FALSE, cells |-> prefix \o timeCells(fullName(user), t)]

receiptRow(user, prefix, r) ==
  IF noteThrows(r) \/ amountThrows(r)
  THEN [owner |-> user.id, thrown |-> TRUE, cells |-> <<>>]
  ELSE [owner |-> user.id, thrown |-> FALSE,
        cells |-> prefix \o receiptCells(fullName(user), r)]

\* the comparator with its operands exchanged: the latest record first
sortedByDateDescending(list, field) ==
  LET order == sortIndices(Len(list),
                 [i \in DOMAIN list |-> [j \in DOMAIN list |->
                    Date(list[j][field]) - Date(list[i][field]) > 0]])
  IN [k \in DOMAIN list |-> list[order[k]]]

\* list.slice().sort((a, b) => new Date(a[field]) - new Date(b[field]))
sortedByDate(list, field) ==
  LET order == sortIndices(Len(list),
                 [i \in DOMAIN list |-> [j \in DOMAIN list |->
                    Date(list[i][field]) - Date(list[j][field]) > 0]])
  IN [k \in DOMAIN list |-> list[order[k]]]

\* a single-user report sorted by date as the group reports are
userRowsSortedByDate(user, type) ==
  IF type = "times"
  THEN [k \in DOMAIN user.times |->
          timeRow(user, <<>>, sortedByDate(user.times, "clockIn")[k])]
  ELSE [k \in DOMAIN user.receipts |->
          receiptRow(user, <<>>, sortedByDate(user.receipts, "date")[k])]

\* (user.times || []).forEach(...), (user.receipts || []).forEach(...)
userRows(user, type) ==
  IF type = "times"
  THEN [k \in DOMAIN user.times |-> timeRow(user, <<>>, user.times[k])]
  ELSE [k \in DOMAIN user.receipts |-> receiptRow(user, <<>>, user.receipts[k])]

\* the name a member is sorted by: '' when the id resolves to no user
memberKey(d, id) ==
  IF userIndex(d, id) = 0 THEN <<>> ELSE toLowerCase(fullName(d.users[userIndex(d, id)]))

\* a comparison of the names as stored, by code points
memberCompareCaseSensitive(d, a, b) ==
  localeCompare(IF userIndex(d, a) = 0 THEN <<>> ELSE fullName(d.users[userIndex(d, a)]),
                IF userIndex(d, b) = 0 THEN <<>> ELSE fullName(d.users[userIndex(d, b)]))

\* nameA.localeCompare(nameB)
memberCompare(d, a, b) == localeCompare(memberKey(d, a), memberKey(d, b))

\* (group.members || []).slice().sort(...)
sortedMembers(d, members) ==
  LET order == sortIndices(Len(members),
                 [i \in DOMAIN members |-> [j \in DOMAIN members |->
                    memberCompare(d, members[i], members[j]) > 0]])
  IN [k \in DOMAIN members |-> members[order[k]]]

\* the member loop without its guard `if (!user) return`: reading the records
\* of a user that is not there throws
memberRowsUnguarded(d, group, uid, type) ==
  IF userIndex(d, uid) = 0 THEN <<[owner |-> uid, thrown |-> TRUE, cells |-> <<>>]>>
  ELSE LET user == d.users[userIndex(d, uid)]
       IN IF type = "times"
          THEN [k \in DOMAIN user.times |->
                  timeRow(user, <<Str(group.name)>>, sortedByDate(user.times, "clockIn")[k])]
          ELSE [k \in DOMAIN user.receipts |->
                  receiptRow(user, <<Str(group.name)>>, sortedByDate(user.receipts, "date")[k])]

\* the rows of one member of a group; none when the id resolves to no user
memberRows(d, group, uid, type) ==
  IF userIndex(d, uid) = 0 THEN <<>>
  ELSE LET user == d.users[userIndex(d, uid)]
       IN IF type = "times"
          THEN [k \in DOMAIN user.times |->
                  timeRow(user, <<Str(group.name)>>, sortedByDate(user.times, "clockIn")[k])]
          ELSE [k \in DOMAIN user.receipts |->
                  receiptRow(user, <<Str(group.name)>>, sortedByDate(user.receipts, "date")[k])]

\* sortedMembers.forEach(uid => ...)
groupRows(d, group, type) ==
  Flatten([m \in DOMAIN group.members |->
             memberRows(d, group, sortedMembers(d, group.members)[m], type)])

(***************************************************************************)
(* GET /api/exports/:scope/:scopeId/:type[/pdf]                            *)
(***************************************************************************)
NoRequest == [scope |-> "", id |-> "", type |-> "", format |-> ""]

NoResponse ==
  [kind |-> "none", req |-> NoRequest, status |-> 0, ctype |-> "", body |-> <<>>,
   table |-> <<>>, owners |-> <<>>, work |-> <<>>]

\* an answer that is no report; work is what the handler did before it: "find"
\* the lookup of the scopeId in the store, "rows" the building of the rows,
\* "render" the rendering of the table
respond(req, work, status, ctype, body) ==
  [kind |-> "export", req |-> req, status |-> status, ctype |-> ctype, body |-> body,
   table |-> <<>>, owners |-> <<>>, work |-> work]

reportHeaders(scope, type) ==
  (IF scope = "group" THEN <<Grupo>> ELSE <<>>)
  \o (IF type = "times" THEN <<Nombre, Entrada, Salida, Horas>>
      ELSE <<Nombre, Fecha, Categoria, Descripcion, Monto>>)

reportTitle(scope, type, subject) ==
  (CASE scope = "user" /\ type = "times" -> HorasDe
     [] scope = "user" /\ type # "times" -> RecibosDe
     [] scope # "user" /\ type = "times" -> HorasDelGrupo
     [] OTHER -> RecibosDelGrupo) \o subject

\* a handler that writes the rows as they are built: the rows before the one
\* that throws have been sent, with a status of success, when it throws
sendReportStreamed(req, subject, rows) ==
  LET bad == { k \in DOMAIN rows : rows[k].thrown }
      sent == IF bad = {} THEN rows
              ELSE SubSeq(rows, 1, (CHOOSE k \in bad : \A j \in bad : k <= j) - 1)
      headers == reportHeaders(req.scope, req.type)
      cells == [k \in DOMAIN sent |-> sent[k].cells]
      table == <<[c \in DOMAIN headers |-> Str(headers[c])]>> \o cells
  IN [kind |-> "export", req |-> req, status |-> 200,
      ctype |-> IF req.format = "pdf" THEN "pdf" ELSE "csv",
      body |-> IF req.format = "pdf"
               THEN generatePDF(reportTitle(req.scope, req.type, subject),
                                headers, cells).buffer
               ELSE Utf8(renderCsv(table)),
      table |-> table,
      owners |-> [k \in DOMAIN sent |-> sent[k].owner],
      work |-> <<"find", "rows", "render">>]

\* the rows are built, then rendered and sent; a TypeError thrown while they
\* are built is caught by the handler, which answers 500
sendReport(req, subject, rows) ==
  IF \E k \in DOMAIN rows : rows[k].thrown
  THEN respond(req, <<"find", "rows">>, 500, "json", Utf8(ErrorInterno))
  ELSE LET headers == reportHeaders(req.scope, req.type)
           cells == [k \in DOMAIN rows |-> rows[k].cells]
           table == <<[c \in DOMAIN headers |-> Str(headers[c])]>> \o cells
       IN [kind |-> "export", req |-> req, status |-> 200,
           ctype |-> IF req.format = "pdf" THEN "pdf" ELSE "csv",
           body |-> IF req.format = "pdf"
                    THEN generatePDF(reportTitle(req.scope, req.type, subject),
                                     headers, cells).buffer
                    ELSE Utf8(renderCsv(table)),
           table |-> table,
           owners |-> [k \in DOMAIN rows |-> rows[k].owner],
           work |-> <<"find", "rows", "render">>]

\* the user branch answering an unknown id with a report of no rows
exportUserUnchecked(d, req) ==
  IF req.type \in {"times", "receipts"}
  THEN IF userIndex(d, req.id) = 0 THEN sendReport(req, <<>>, <<>>)
       ELSE sendReport(req, fullName(d.users[userIndex(d, req.id)]),
                       userRows(d.users[userIndex(d, req.id)], req.type))
  ELSE respond(req, <<"find">>, 404, "json", Utf8(EndpointNoEncontrado))

exportUser(d, req) ==
  IF userIndex(d, req.id) = 0
  THEN respond(req, <<"find">>, 404, "text", Utf8(UsuarioNoEncontrado))
  ELSE IF req.type \in {"times", "receipts"}
  THEN sendReport(req, fullName(d.users[userIndex(d, req.id)]),
                  userRows(d.users[userIndex(d, req.id)], req.type))
  ELSE respond(req, <<"find">>, 404, "json", Utf8(EndpointNoEncontrado))

\* the group branch with one `else` for the two types: whatever is not
\* 'receipts' is taken for 'times'
exportGroupElseTimes(d, req) ==
  IF groupIndex(d, req.id) = 0
  THEN respond(req, <<"find">>, 404, "text", Utf8(GrupoNoEncontrado))
  ELSE [sendReport([req EXCEPT !.type = IF req.type = "receipts" THEN "receipts" ELSE "times"],
                   d.groups[groupIndex(d, req.id)].name,
                   groupRows(d, d.groups[groupIndex(d, req.id)],
                             IF req.type = "receipts" THEN "receipts" ELSE "times"))
          EXCEPT !.req = req]

exportGroup(d, req) ==
  IF groupIndex(d, req.id) = 0
  THEN respond(req, <<"find">>, 404, "text", Utf8(GrupoNoEncontrado))
  ELSE IF req.type \in {"times", "receipts"}
  THEN sendReport(req, d.groups[groupIndex(d, req.id)].name,
                  groupRows(d, d.groups[groupIndex(d, req.id)], req.type))
  ELSE respond(req, <<"find">>, 404, "json", Utf8(EndpointNoEncontrado))

exportResponse(d, req) ==
  CASE req.scope = "user" -> exportUser(d, req)
    [] req.scope = "group" -> exportGroup(d, req)
    [] OTHER -> respond(req, <<>>, 404, "json", Utf8(EndpointNoEncontrado))

(***************************************************************************)
(* POST /api/users/:id/receipts                                            *)
(***************************************************************************)
\* isNaN(v): an empty string and a string of digits are numbers, null is 0
isNaN(v) ==
  CASE v.t = "num" -> FALSE
    [] v.t = "null" -> FALSE
    [] v.t = "str" -> \E i \in DOMAIN v.s : v.s[i] \notin 48..57
    [] OTHER -> TRUE

RECURSIVE DigitsValue(_)
DigitsValue(ds) ==
  IF ds = <<>> THEN 0 ELSE 10 * DigitsValue(SubSeq(ds, 1, Len(ds) - 1)) + (ds[Len(ds)] - 48)

\* Number(v), in hundredths, of a value that is not NaN
Number(v) ==
  CASE v.t = "num" -> v.s[1]
    [] v.t = "str" -> 100 * DigitsValue(v.s)
    [] OTHER -> 0

\* amount !== undefined && !isNaN(amount) ? Number(amount) : null
normaliseAmount(amount) ==
  IF amount.t # "undef" /\ ~isNaN(amount) THEN Num(Number(amount)) ELSE Null

\* the receipt pushed; its id and its image are read by no export
newReceipt(body, date) ==
  [date |-> date, category |-> body.category,
   note |-> IF Truthy(body.note) THEN body.note ELSE Str(<<>>),
   amount |-> normaliseAmount(body.amount)]

answer(kind, status) ==
  [kind |-> kind, req |-> NoRequest, status |-> status, ctype |-> "json", body |-> <<>>,
   table |-> <<>>, owners |-> <<>>, work |-> <<>>]

(***************************************************************************)
(* The server.  data.json is read at the start of every request and is     *)
(* not validated: the file found at start-up may come from an earlier      *)
(* version of the program or from another tool, which is what the guards   *)
(* of the handlers allow for (user.times || [], r.note || '',              *)
(* r.amount !== undefined, cell != null).                                  *)
(***************************************************************************)
MaxReceipts == 2

Beta == <<66, 101, 116, 97>>

\* the receipt of user u2 found in data.json: its amount is a number, null,
\* absent or a string, its category a string, absent or null
FoundReceipts ==
  { [date |-> Iso(3000), category |-> Str(<<67, 40, 44>>), note |-> Str(<<110, 10, 111>>),
     amount |-> a] : a \in {Num(500), Num(1999), Null, Undefined, Str(<<49, 50>>)} }
  \cup
  { [date |-> Iso(3000), category |-> c, note |-> Str(<<110, 10, 111>>),
     amount |-> Num(500)] : c \in {Undefined, Null} }

Users(found) ==
  << [id |-> "u1", firstName |-> Beta, lastName |-> <<66>>,
      times |-> << [clockIn |-> Iso(600), clockOut |-> Iso(1085)],
                   [clockIn |-> Iso(90), clockOut |-> Null] >>,
      receipts |-> << [date |-> Iso(2000), category |-> Str(<<84>>), note |-> Str(<<>>),
                       amount |-> Num(500)] >>],
     [id |-> "u2", firstName |-> <<97, 108, 112, 104, 97>>, lastName |-> <<97>>,
      times |-> << [clockIn |-> Iso(480), clockOut |-> Iso(1000)] >>,
      receipts |-> <<found>>],
     [id |-> "u3", firstName |-> <<98, 101, 116, 97>>, lastName |-> <<98>>,
      times |-> << [clockIn |-> Iso(700), clockOut |-> Null] >>,
      receipts |-> << [date |-> Iso(100), category |-> Str(<<84>>), note |-> Str(<<>>),
                       amount |-> Null] >>] >>

Groups(members) == << [id |-> "g1", name |-> <<71, 40, 49, 41>>, members |-> members] >>

Requests ==
  { [scope |-> s, id |-> i, type |-> t, format |-> f] :
      s \in {"user"}, i \in {"u2", "u9"}, t \in {"times", "receipts", "other"},
      f \in {"", "pdf"} }
  \cup
  { [scope |-> s, id |-> i, type |-> t, format |-> f] :
      s \in {"group"}, i \in {"g1", "g9"}, t \in {"times", "receipts", "other"},
      f \in {"", "pdf"} }
  \cup
  { [scope |-> "team", id |-> "g1", type |-> "times", format |-> ""],
    [scope |-> "", id |-> "", type |-> "", format |-> ""],
    [scope |-> "user", id |-> "u2", type |-> "", format |-> ""],
    [scope |-> "group", id |-> "g1", type |-> "", format |-> ""] }

\* the bodies posted: the amount absent, null, a word or digits; one has no category
PostBodies ==
  { [category |-> Str(<<84>>), imageData |-> Str(<<105>>), note |-> Undefined, amount |-> a] :
      a \in {Undefined, Null, Str(<<120>>), Str(<<53>>)} }
  \cup
  { [category |-> Undefined, imageData |-> Str(<<105>>), note |-> Undefined,
     amount |-> Str(<<53>>)] }

Init ==
  /\ \E found \in FoundReceipts :
        data = [users |-> Users(found), groups |-> Groups(<<"u3", "u9", "u1", "u2">>)]
  /\ now = 4000
  /\ resp = NoResponse
  /\ args = None
  /\ result = None
  /\ pending = <<>>

\* a store kept from an earlier read: that of the oldest request still waiting
readDataCached(file) == IF pending # <<>> THEN pending[1].snap ELSE file

\* readData(): the file as it is when the handler starts
readData(file) == file

\* GET /api/exports/...: the store is read once, when the handler starts, the
\* handler runs to its response without an await, and the store is not written
Export(req) ==
  /\ resp' = exportResponse(readData(data), req)
  /\ UNCHANGED <<data, now, args, result, pending>>

\* POST /api/users/:id/receipts
PostReceipt(uid, body) ==
  /\ userIndex(data, uid) # 0 => Len(data.users[userIndex(data, uid)].receipts) < MaxReceipts
  /\ IF userIndex(data, uid) = 0
     THEN resp' = answer("receipt", 404) /\ data' = data
     ELSE IF ~Truthy(body.category) \/ ~Truthy(body.imageData)
     THEN resp' = answer("receipt", 400) /\ data' = data
     ELSE /\ data' = [data EXCEPT !.users[userIndex(data, uid)].receipts =
                        Append(@, newReceipt(body, Iso(now)))]
          /\ resp' = answer("receipt", 201)
  /\ UNCHANGED <<now, args, result, pending>>

Next ==
  \/ \E req \in Requests : Export(req)
  \/ \E uid \in {"u2", "u9"}, body \in PostBodies : PostReceipt(uid, body)

Spec == Init /\ [][Next]_vars

(***************************************************************************)
(* generatePDF as a function under check                                   *)
(***************************************************************************)
MaxRows == 2

PdfTitles == { <<>>, <<40, 237, 41>>, <<92, 8364>> }

PdfHeaders == { <<<<97>>, <<237, 98>>>>, <<<<40>>, <<>>>> }

PdfCells == { Str(<<40, 233, 8364>>), Str(<<92, 41>>), Null }

\* rows of n cells
RowsOf(n) ==
  UNION { [1..k -> [1..n -> PdfCells]] : k \in 0..MaxRows }

InitPdf ==
  /\ data = [users |-> <<>>, groups |-> <<>>]
  /\ now = 0
  /\ resp = NoResponse
  /\ result = None
  /\ \E t \in PdfTitles, h \in PdfHeaders, r \in RowsOf(2) :
        args = [title |-> t, headers |-> h, rows |-> r]
  /\ pending = <<>>

CallGeneratePDF ==
  /\ result = None
  /\ result' = generatePDF(args.title, args.headers, args.rows)
  /\ UNCHANGED <<data, now, resp, args, pending>>

NextPdf == CallGeneratePDF

SpecPdf == InitPdf /\ [][NextPdf]_vars

(***************************************************************************)
(* Reading a document back                                                 *)
(***************************************************************************)
\* the 0-based index of the first occurrence of pat in s, -1 when there is none
FirstIndexOf(s, pat) ==
  LET at == { i \in 0..(Len(s) - Len(pat)) : \A k \in 1..Len(pat) : s[i + k] = pat[k] }
  IN IF at = {} THEN 0 - 1 ELSE CHOOSE i \in at : \A j \in at : i <= j

\* the offset field of entry n (0 = the free entry) of the cross-reference
\* section: 20 bytes an entry, after the 'xref\n0 6\n' lines
XrefEntryOffset(buffer, n) ==
  LET table == FirstIndexOf(buffer, SubSeq(XrefHead, 1, 9)) + 9
  IN DigitsValue(SubSeq(buffer, table + 20 * n + 1, table + 20 * n + 10))

\* the 0-based byte index at which 'N 0 obj' first appears
ObjectStart(buffer, n) == FirstIndexOf(buffer, <<48 + n>> \o ObjKeyword)

\* the number of backslashes that stand in a row just before s[i]
BackslashRun(s, i) ==
  Cardinality({ k \in 1..(i - 1) : \A j \in (i - k)..(i - 1) : s[j] = 92 })

\* s[i] is not made literal by a backslash before it
Unescaped(s, i) == BackslashRun(s, i) % 2 = 0

\* the k-th least element of a set of numbers
Nth(S, k) == CHOOSE x \in S : Cardinality({ y \in S : y <= x }) = k

\* what a string literal holds: the backslashes that escape are dropped
Unescape(raw) ==
  LET kept == { i \in DOMAIN raw : raw[i] # 92 \/ ~Unescaped(raw, i) }
  IN [k \in 1..Cardinality(kept) |-> raw[Nth(kept, k)]]

\* the string literals (...) of a content stream from index `from` on, read
\* left to right: a literal opens at '(' and ends at the next unescaped ')';
\* clean is FALSE when it holds an unescaped '('
RECURSIVE ReadLiterals(_, _, _)
ReadLiterals(c, from, acc) ==
  LET opens == { i \in from..Len(c) : c[i] = 40 }
  IN IF opens = {} THEN acc
     ELSE LET open == Nth(opens, 1)
              closes == { i \in (open + 1)..Len(c) :
                            c[i] = 41 /\ Unescaped(SubSeq(c, open + 1, i), i - open) }
          IN IF closes = {} THEN acc
             ELSE LET raw == SubSeq(c, open + 1, Nth(closes, 1) - 1)
                  IN ReadLiterals(c, Nth(closes, 1) + 1,
                       Append(acc, [raw |-> raw, text |-> Unescape(raw),
                                    clean |-> \A i \in DOMAIN raw :
                                                raw[i] = 40 => ~Unescaped(raw, i)]))

Literals(content) == ReadLiterals(content, 1, <<>>)

Specials(s) == Cardinality({ i \in DOMAIN s : s[i] \in {92, 40, 41} })

(***************************************************************************)
(* C1.  For every object number N in 1..5 the offset recorded in the N-th  *)
(* in-use cross-reference entry of the document is the byte index, from    *)
(* the start of the output, of the first byte of 'N 0 obj'.                *)
(***************************************************************************)
XrefOffsetsPointAtObjects ==
  result # None =>
    \A n \in 1..5 : XrefEntryOffset(result.buffer, n) = ObjectStart(result.buffer, n)

\* a document whose title and rows hold multi-byte characters, so that the
\* byte index of object 5 is not its character index
XrefOffsetsWitness ==
  /\ result # None
  /\ args.title = <<92, 8364>>
  /\ Len(args.rows) = 2
  /\ args.rows[1][1] = Str(<<40, 233, 8364>>)
  /\ XrefEntryOffset(result.buffer, 5) = ObjectStart(result.buffer, 5)
  /\ ObjectStart(result.buffer, 5) > ObjectStart(result.buffer, 4) + Len(result.content)

(***************************************************************************)
(* C8.  Every text line of the document (title, header line, data lines)   *)
(* is one string literal holding the whole padded line, in which each      *)
(* backslash, '(' and ')' is preceded by exactly one backslash and every   *)
(* other character is unchanged: reading the literal gives back the line,  *)
(* and no unescaped parenthesis is inside it.                              *)
(***************************************************************************)
LinesEscapedOnce ==
  result # None =>
    LET lits == Literals(result.content)
    IN /\ Len(lits) = Len(result.lines)
       /\ \A k \in DOMAIN lits :
            /\ lits[k].text = result.lines[k]
            /\ lits[k].clean
            /\ Len(lits[k].raw) = Len(result.lines[k]) + Specials(result.lines[k])

\* a title with both parentheses and a data line with a backslash
LinesEscapedWitness ==
  /\ result # None
  /\ args.title = <<40, 237, 41>>
  /\ \E k \in DOMAIN args.rows : args.rows[k][2] = Str(<<92, 41>>)
  /\ Specials(result.lines[3]) > 0
  /\ Literals(result.content)[1].raw = <<92, 40, 237, 92, 41>>

(***************************************************************************)
(* The delimited-text rendering as a function under check                  *)
(***************************************************************************)
MaxCsvRows == 1

CsvCells ==
  { Str(<<>>), Str(<<97, 44, 98>>), Str(<<34, 97, 34>>), Str(<<98, 10>>),
    Str(<<97, 13>>), Str(<<99>>), Null }

\* the header row followed by up to MaxCsvRows data rows, two cells a row
CsvTables ==
  UNION { [1..(k + 1) -> [1..2 -> CsvCells]] : k \in 0..MaxCsvRows }

InitCsv ==
  /\ data = [users |-> <<>>, groups |-> <<>>]
  /\ now = 0
  /\ resp = NoResponse
  /\ result = None
  /\ \E t \in CsvTables : args = [table |-> t]
  /\ pending = <<>>

RenderCsv ==
  /\ result = None
  /\ result' = [escaped |-> escapeRows(args.table), csv |-> renderCsv(args.table)]
  /\ UNCHANGED <<data, now, resp, args, pending>>

NextCsv == RenderCsv

SpecCsv == InitCsv /\ [][NextCsv]_vars

(***************************************************************************)
(* A standard comma-separated parser (RFC 4180): fields are separated by   *)
(* commas and records by a line break, CR LF or a bare LF; a field that    *)
(* opens with a double quote runs to its closing quote, "" inside it being *)
(* one quote.  A CR that no LF follows is kept as data.                    *)
(***************************************************************************)
RECURSIVE CsvScan(_, _, _, _, _, _)
CsvScan(s, i, mode, field, row, rows) ==
  IF i > Len(s) THEN
    IF mode = "start" /\ row = <<>> THEN rows ELSE Append(rows, Append(row, field))
  ELSE IF mode = "quoted" THEN
    IF s[i] # 34 THEN CsvScan(s, i + 1, "quoted", Append(field, s[i]), row, rows)
    ELSE IF i < Len(s) /\ s[i + 1] = 34
      THEN CsvScan(s, i + 2, "quoted", Append(field, 34), row, rows)
      ELSE CsvScan(s, i + 1, "plain", field, row, rows)
  ELSE IF s[i] = 34 /\ mode = "start" THEN CsvScan(s, i + 1, "quoted", field, row, rows)
  ELSE IF s[i] = 44 THEN CsvScan(s, i + 1, "start", <<>>, Append(row, field), rows)
  ELSE IF s[i] = 10
    THEN CsvScan(s, i + 1, "start", <<>>, <<>>, Append(rows, Append(row, field)))
  ELSE IF s[i] = 13 /\ i < Len(s) /\ s[i + 1] = 10
    THEN CsvScan(s, i + 2, "start", <<>>, <<>>, Append(rows, Append(row, field)))
  ELSE CsvScan(s, i + 1, "plain", Append(field, s[i]), row, rows)

ParseCsv(text) == CsvScan(text, 1, "start", <<>>, <<>>, <<>>)

\* the cells of a table as strings
CellStrings(table) ==
  [r \in DOMAIN table |-> [c \in DOMAIN table[r] |-> String(table[r][c])]]

AllStrings(table) ==
  \A r \in DOMAIN table : \A c \in DOMAIN table[r] : table[r][c].t = "str"

(***************************************************************************)
(* C2.  For every table whose cells are strings, parsing the delimited     *)
(* text with a standard comma-separated parser gives back the same         *)
(* header/row matrix, cell for cell.                                       *)
(***************************************************************************)
CsvRoundTrip ==
  (result # None /\ AllStrings(args.table)) =>
    ParseCsv(result.csv) = CellStrings(args.table)

\* s with every doubled double quote made single; <<0>> when a quote stands alone
RECURSIVE UnDouble(_)
UnDouble(s) ==
  IF s = <<>> THEN <<>>
  ELSE IF s[1] # 34 THEN <<s[1]>> \o UnDouble(Tail(s))
  ELSE IF Len(s) >= 2 /\ s[2] = 34 THEN <<34>> \o UnDouble(Tail(Tail(s)))
  ELSE <<0>>

Quotes(s) == Cardinality({ i \in DOMAIN s : s[i] = 34 })

(***************************************************************************)
(* C7.  escapeCsv of a cell whose string holds a comma, a double quote or  *)
(* a line break (LF, the character that breaks the lines of the output) is *)
(* the string inside one pair of double quotes with every double quote of  *)
(* it doubled; of any other cell it is the cell's string unchanged.        *)
(***************************************************************************)
EscapeCsvRule ==
  result # None =>
    \A r \in DOMAIN args.table : \A c \in DOMAIN args.table[r] :
      LET s == String(args.table[r][c])
          e == result.escaped[r][c]
      IN IF \E i \in DOMAIN s : s[i] \in {44, 34, 10}
         THEN /\ Len(e) = Len(s) + Quotes(s) + 2
              /\ e[1] = 34 /\ e[Len(e)] = 34
              /\ UnDouble(SubSeq(e, 2, Len(e) - 1)) = s
         ELSE e = s

\* a,b becomes "a,b", a quoted word has its quotes doubled, c is unchanged
EscapeCsvWitness ==
  /\ result # None
  /\ Len(args.table) = 2
  /\ args.table[1] = <<Str(<<97, 44, 98>>), Str(<<34, 97, 34>>)>>
  /\ args.table[2] = <<Str(<<99>>), Str(<<98, 10>>)>>
  /\ result.escaped[1] = << <<34, 97, 44, 98, 34>>, <<34, 34, 34, 97, 34, 34, 34>> >>
  /\ result.escaped[2] = << <<99>>, <<34, 98, 10, 34>> >>

(***************************************************************************)
(* Group reports for every order of the member list                        *)
(***************************************************************************)
MemberIds == {"u1", "u2", "u3", "u9"}

\* the member lists: every order of every subset of MemberIds ("u9" is the
\* id of no user), no id twice
MemberLists ==
  { m \in UNION { [1..k -> MemberIds] : k \in 0..Cardinality(MemberIds) } :
      \A i, j \in DOMAIN m : m[i] = m[j] => i = j }

GroupRequests ==
  { [scope |-> "group", id |-> "g1", type |-> t, format |-> f] :
      t \in {"times", "receipts"}, f \in {"", "pdf"} }

InitGroup ==
  /\ \E m \in MemberLists :
        data = [users |-> Users([date |-> Iso(3000), category |-> Str(<<84>>),
                                 note |-> Str(<<>>), amount |-> Num(1999)]),
                groups |-> Groups(m)]
  /\ now = 4000
  /\ resp = NoResponse
  /\ args = None
  /\ result = None
  /\ pending = <<>>

NextGroup == \E req \in GroupRequests : Export(req)

SpecGroup == InitGroup /\ [][NextGroup]_vars

\* a step that serves an export request: the response is resp'
ExportServed == resp'.kind = "export" /\ resp' # resp

UnknownScopeId(d, req) ==
  \/ req.scope = "user" /\ \A i \in DOMAIN d.users : d.users[i].id # req.id
  \/ req.scope = "group" /\ \A i \in DOMAIN d.groups : d.groups[i].id # req.id

(***************************************************************************)
(* C3.  An export whose scope is user and whose scopeId is the id of no    *)
(* stored user, or whose scope is group and whose scopeId is the id of no  *)
(* stored group, is answered 404 whatever its type and format, and with no *)
(* report, empty or partial.                                               *)
(***************************************************************************)
UnknownScopeIdIsNotFound ==
  [][(ExportServed /\ UnknownScopeId(data, resp'.req)) =>
       /\ resp'.status = 404
       /\ resp'.ctype \notin {"csv", "pdf"}
       /\ resp'.table = <<>>]_vars

\* a document of receipts asked for a user that is not stored
UnknownScopeIdWitness ==
  /\ resp.kind = "export"
  /\ resp.req = [scope |-> "user", id |-> "u9", type |-> "receipts", format |-> "pdf"]
  /\ \A i \in DOMAIN data.users : data.users[i].id # "u9"
  /\ resp.status = 404
  /\ resp.body = Utf8(UsuarioNoEncontrado)

NameLeq(a, b) == localeCompare(toLowerCase(a), toLowerCase(b)) <= 0

Position(list, x) == CHOOSE i \in DOMAIN list : list[i] = x

(***************************************************************************)
(* C4.  In a group report the rows of a member are together, the members   *)
(* are in non-decreasing order of their full name compared without regard  *)
(* to case, whatever the order of the member list, and members whose names *)
(* compare equal are in the order of the member list.                      *)
(***************************************************************************)
GroupRowsSortedByName ==
  (resp.kind = "export" /\ resp.status = 200 /\ resp.req.scope = "group") =>
    LET members == data.groups[groupIndex(data, resp.req.id)].members
        own == resp.owners
        name(k) == resp.table[k + 1][2].s
    IN /\ Len(resp.table) = Len(own) + 1
       /\ \A k \in DOMAIN own : name(k) = fullName(data.users[userIndex(data, own[k])])
       /\ \A i, j, k \in DOMAIN own : (i < j /\ j < k /\ own[i] = own[k]) => own[j] = own[i]
       /\ \A i, j \in DOMAIN own : i < j => NameLeq(name(i), name(j))
       /\ \A i, j \in DOMAIN own :
            (i < j /\ own[i] # own[j] /\ NameLeq(name(j), name(i)))
              => Position(members, own[i]) < Position(members, own[j])

\* 'Beta B' is listed before 'alpha a' and before 'beta b': the rows of
\* alpha a come first, then those of Beta B, then those of beta b
GroupRowsSortedWitness ==
  /\ resp.kind = "export" /\ resp.status = 200
  /\ resp.req.type = "times"
  /\ data.groups[1].members = <<"u1", "u9", "u3", "u2">>
  /\ resp.owners = <<"u2", "u1", "u1", "u3">>

HeaderCount(req) ==
  (IF req.scope = "group" THEN 1 ELSE 0) + (IF req.type = "times" THEN 4 ELSE 5)

(***************************************************************************)
(* C5.  In every report every data row has as many cells as the header     *)
(* row: 4 for user times, 5 for user receipts, 5 for group times and 6 for *)
(* group receipts.                                                         *)
(***************************************************************************)
RowsMatchHeaders ==
  (resp.kind = "export" /\ resp.status = 200) =>
    /\ Len(resp.table) >= 1
    /\ Len(resp.table[1]) = HeaderCount(resp.req)
    /\ \A k \in DOMAIN resp.table : Len(resp.table[k]) = Len(resp.table[1])

\* a group receipts report of four data rows, one of them a receipt just posted
RowsMatchHeadersWitness ==
  /\ resp.kind = "export" /\ resp.status = 200
  /\ resp.req.scope = "group" /\ resp.req.type = "receipts"
  /\ Len(resp.table) = 5
  /\ Len(resp.table[5]) = 6
  /\ Len(data.users[2].receipts) = 2

\* the amount of c hundredths written with two decimals
TwoDecimals(c) ==
  (IF c < 0 THEN <<45>> ELSE <<>>)
  \o Digits((IF c < 0 THEN 0 - c ELSE c) \div 100) \o <<46>>
  \o <<48 + (((IF c < 0 THEN 0 - c ELSE c) % 100) \div 10),
       48 + ((IF c < 0 THEN 0 - c ELSE c) % 10)>>

AmountText(amount) == IF amount.t = "num" THEN TwoDecimals(amount.s[1]) ELSE <<>>

(***************************************************************************)
(* C6.  For every receipt in a report the amount cell is the amount with   *)
(* two decimals when the amount is a number and the empty string when it   *)
(* is absent, null or present but no number, and the export does not fail. *)
(***************************************************************************)
AmountCellsAsSpecified ==
  [][(/\ ExportServed
      /\ resp'.req.scope = "user" /\ resp'.req.type = "receipts"
      /\ ~UnknownScopeId(data, resp'.req)) =>
       LET receipts == data.users[userIndex(data, resp'.req.id)].receipts
       IN /\ resp'.status = 200
          /\ Len(resp'.table) = Len(receipts) + 1
          /\ \A k \in DOMAIN receipts :
               resp'.table[k + 1][5] = Str(AmountText(receipts[k].amount))]_vars

\* const str = String(value), the string escapeCsv goes on to escape
csvDisplay(value) == String(value)

(***************************************************************************)
(* C10.  For every cell of a report, null and absent cells included, the   *)
(* delimited-text renderer and the document renderer start from the same   *)
(* display string, which is empty when the cell is null or absent.         *)
(***************************************************************************)
CellsDisplayAlike ==
  (resp.kind = "export" /\ resp.status = 200) =>
    \A k \in DOMAIN resp.table : \A c \in DOMAIN resp.table[k] :
      /\ csvDisplay(resp.table[k][c]) = displayCell(resp.table[k][c])
      /\ ~NotNullish(resp.table[k][c]) => csvDisplay(resp.table[k][c]) = <<>>

Resolves(d, id) == \E i \in DOMAIN d.users : d.users[i].id = id

\* the store with the ids that resolve to no user taken out of every member list
WithoutUnresolved(d) ==
  LET Known(id) == Resolves(d, id)
  IN [d EXCEPT !.groups =
        [g \in DOMAIN d.groups |->
           [d.groups[g] EXCEPT !.members = SelectSeq(d.groups[g].members, Known)]]]

RecordCount(user, type) == IF type = "times" THEN Len(user.times) ELSE Len(user.receipts)

(***************************************************************************)
(* C11.  The export of a group whose member list holds ids that resolve to *)
(* no stored user succeeds, has rows for the members that resolve and for  *)
(* no one else, as many for each as the member has records, and is the     *)
(* response the same request gets once the unresolved ids are taken out of *)
(* the member list.                                                        *)
(***************************************************************************)
UnresolvedMembersDropped ==
  (/\ resp.kind = "export" /\ resp.req.scope = "group"
   /\ resp.req.type \in {"times", "receipts"}
   /\ ~UnknownScopeId(data, resp.req)
   /\ \E m \in DOMAIN data.groups[groupIndex(data, resp.req.id)].members :
        ~Resolves(data, data.groups[groupIndex(data, resp.req.id)].members[m])) =>
    LET members == data.groups[groupIndex(data, resp.req.id)].members
    IN /\ resp.status = 200
       /\ Len(resp.table) = Len(resp.owners) + 1
       /\ \A k \in DOMAIN resp.owners :
            /\ Resolves(data, resp.owners[k])
            /\ \E m \in DOMAIN members : members[m] = resp.owners[k]
       /\ \A m \in DOMAIN members :
            Resolves(data, members[m]) =>
              Cardinality({ k \in DOMAIN resp.owners : resp.owners[k] = members[m] })
                = RecordCount(data.users[userIndex(data, members[m])], resp.req.type)
       /\ resp = exportResponse(WithoutUnresolved(data), resp.req)

\* 'beta b', an id of no user, 'alpha a': the receipt of alpha a, then that of beta b
UnresolvedMembersWitness ==
  /\ resp.kind = "export" /\ resp.status = 200
  /\ resp.req.type = "receipts" /\ resp.req.format = ""
  /\ data.groups[1].members = <<"u3", "u9", "u2">>
  /\ resp.owners = <<"u2", "u3">>
  /\ Len(resp.table) = 3

(***************************************************************************)
(* Reports of a user whose records are stored in every order               *)
(***************************************************************************)
MaxRecords == 3

\* what is stored: the instant of a record and a mark that tells two records
\* of one instant apart
SortRecords == { [at |-> 600, mark |-> 1], [at |-> 600, mark |-> 2], [at |-> 90, mark |-> 1] }

SortLists == UNION { [1..n -> SortRecords] : n \in 0..MaxRecords }

\* the time entry of a record: the entry marked 1 is still open
TimeOf(rec) ==
  [clockIn |-> Iso(rec.at),
   clockOut |-> IF rec.mark = 1 THEN Null ELSE Iso(rec.at + 485)]

\* the receipt of a record: its category is 'A' or 'B'
ReceiptOf(rec) ==
  [date |-> Iso(rec.at), category |-> Str(<<64 + rec.mark>>), note |-> Str(<<>>),
   amount |-> Num(100 * rec.mark)]

SortStore(recs) ==
  [users |->
     << [id |-> "u1", firstName |-> Beta, lastName |-> <<66>>,
         times |-> [k \in DOMAIN recs |-> TimeOf(recs[k])],
         receipts |-> [k \in DOMAIN recs |-> ReceiptOf(recs[k])]],
        [id |-> "u2", firstName |-> <<97, 108, 112, 104, 97>>, lastName |-> <<97>>,
         times |-> << [clockIn |-> Iso(480), clockOut |-> Iso(1000)] >>,
         receipts |-> << [date |-> Iso(3000), category |-> Str(<<84>>), note |-> Str(<<>>),
                          amount |-> Num(1999)] >>] >>,
   groups |-> Groups(<<"u1", "u2">>)]

SortRequests ==
  { [scope |-> s.scope, id |-> s.id, type |-> t, format |-> ""] :
      s \in { [scope |-> "user", id |-> "u1"], [scope |-> "group", id |-> "g1"] },
      t \in {"times", "receipts"} }

InitSort ==
  /\ \E recs \in SortLists : args = [recs |-> recs] /\ data = SortStore(recs)
  /\ now = 4000
  /\ resp = NoResponse
  /\ result = None
  /\ pending = <<>>

NextSort == \E req \in SortRequests : Export(req)

SpecSort == InitSort /\ [][NextSort]_vars

Permutations(n) == { p \in [1..n -> 1..n] : \A i, j \in 1..n : p[i] = p[j] => i = j }

StoredRecords(user, type) == IF type = "times" THEN user.times ELSE user.receipts

DateOf(rec, type) == IF type = "times" THEN Date(rec.clockIn) ELSE Date(rec.date)

\* the cells a report shows for a record of a user
RecordCells(prefix, user, rec, type) ==
  prefix \o (IF type = "times" THEN timeCells(fullName(user), rec)
             ELSE receiptCells(fullName(user), rec))

(***************************************************************************)
(* C12.  In a group report the rows of a member are the member's records   *)
(* in non-decreasing order of their date (clockIn, date) whatever the      *)
(* order they are stored in, records of one date in their stored order,    *)
(* and the stored list is what it was.                                     *)
(***************************************************************************)
MemberRecordsByDate ==
  (resp.kind = "export" /\ resp.status = 200 /\ resp.req.scope = "group") =>
    LET group == data.groups[groupIndex(data, resp.req.id)]
        type == resp.req.type
    IN /\ data = SortStore(args.recs)
       /\ \A m \in DOMAIN group.members :
            LET user == data.users[userIndex(data, group.members[m])]
                stored == StoredRecords(user, type)
                at == { k \in DOMAIN resp.owners : resp.owners[k] = user.id }
            IN /\ Cardinality(at) = Len(stored)
               /\ \E p \in Permutations(Len(stored)) :
                    /\ \A j \in DOMAIN stored :
                         resp.table[Nth(at, j) + 1]
                           = RecordCells(<<Str(group.name)>>, user, stored[p[j]], type)
                    /\ \A i, j \in DOMAIN stored :
                         i < j => DateOf(stored[p[i]], type) <= DateOf(stored[p[j]], type)
                    /\ \A i, j \in DOMAIN stored :
                         (i < j /\ DateOf(stored[p[i]], type) = DateOf(stored[p[j]], type))
                           => p[i] < p[j]

\* stored: 10:00 (closed), 1:30, 10:00 (open); shown: 1:30, 10:00 (closed), 10:00 (open)
MemberRecordsWitness ==
  /\ resp.kind = "export" /\ resp.status = 200
  /\ resp.req.scope = "group" /\ resp.req.type = "times"
  /\ args.recs = << [at |-> 600, mark |-> 2], [at |-> 90, mark |-> 1], [at |-> 600, mark |-> 1] >>
  /\ resp.owners = <<"u2", "u1", "u1", "u1">>
  /\ resp.table[3][3] = Str(formatDateTime(Iso(90)))
  /\ resp.table[4][3] = Str(formatDateTime(Iso(600))) /\ resp.table[4][4] # Str(<<>>)
  /\ resp.table[5][3] = Str(formatDateTime(Iso(600))) /\ resp.table[5][4] = Str(<<>>)
  /\ data.users[1].times[1].clockIn = Iso(600)

(***************************************************************************)
(* C13.  A report of one user has one data row for each stored record of   *)
(* the type asked for, and its i-th data row shows the i-th stored record, *)
(* also when the records are not stored in the order of their dates.       *)
(***************************************************************************)
UserRowsInStoredOrder ==
  (resp.kind = "export" /\ resp.status = 200 /\ resp.req.scope = "user") =>
    LET user == data.users[userIndex(data, resp.req.id)]
        stored == StoredRecords(user, resp.req.type)
    IN /\ Len(resp.table) = Len(stored) + 1
       /\ \A k \in DOMAIN stored :
            resp.table[k + 1] = RecordCells(<<>>, user, stored[k], resp.req.type)

\* stored and shown: the receipt of 10:00, then that of 1:30
UserRowsWitness ==
  /\ resp.kind = "export" /\ resp.status = 200
  /\ resp.req.scope = "user" /\ resp.req.type = "receipts"
  /\ args.recs = << [at |-> 600, mark |-> 2], [at |-> 90, mark |-> 1] >>
  /\ Len(resp.table) = 3
  /\ resp.table[2][2] = Str(formatDateTime(Iso(600)))
  /\ resp.table[3][2] = Str(formatDateTime(Iso(90)))

\* the text between '<< /Length ' and ' >>' in object 4
LengthField(buffer) ==
  SubSeq(buffer, FirstIndexOf(buffer, Obj4Head) + Len(Obj4Head) + 1,
         FirstIndexOf(buffer, Obj4Mid))

\* the 0-based index of the first byte after 'stream\n'
StreamStart(buffer) == FirstIndexOf(buffer, Obj4Mid) + Len(Obj4Mid)

\* the 0-based index of the keyword 'endstream'
StreamEnd(buffer) == FirstIndexOf(buffer, SubSeq(Obj4Tail, 1, 9))

(***************************************************************************)
(* C14.  The number object 4 declares as /Length is the number of bytes of *)
(* the output between 'stream\n' and 'endstream', which are the bytes of   *)
(* the content stream, also when its lines hold multi-byte or escaped      *)
(* characters.                                                             *)
(***************************************************************************)
LengthIsStreamBytes ==
  result # None =>
    /\ LengthField(result.buffer) # <<>>
    /\ \A i \in DOMAIN LengthField(result.buffer) : LengthField(result.buffer)[i] \in 48..57
    /\ DigitsValue(LengthField(result.buffer))
         = StreamEnd(result.buffer) - StreamStart(result.buffer)
    /\ SubSeq(result.buffer, StreamStart(result.buffer) + 1, StreamEnd(result.buffer))
         = Utf8(result.content)

\* a content stream with three-byte characters and escapes: more bytes than characters
LengthWitness ==
  /\ result # None
  /\ args.title = <<92, 8364>>
  /\ Len(args.rows) = 1
  /\ args.rows[1] = <<Str(<<92, 41>>), Str(<<40, 233, 8364>>)>>
  /\ DigitsValue(LengthField(result.buffer)) = Len(Utf8(result.content))
  /\ Len(Utf8(result.content)) > Len(result.content) + 5

\* the 0-based index of the keyword 'xref' that opens a line of its own
XrefStart(buffer) == FirstIndexOf(buffer, <<10, 120, 114, 101, 102, 10>>) + 1

\* entry n (0..5) of the cross-reference section that starts at x, 20 bytes
XrefEntry(buffer, x, n) == SubSeq(buffer, x + 9 + 20 * n + 1, x + 9 + 20 * n + 20)

\* what follows the sixth entry, to the end of the output
AfterXref(buffer, x) == SubSeq(buffer, x + 9 + 120 + 1, Len(buffer))

\* the text between 'startxref\n' and '\n%%EOF' at the end of the output
StartXrefField(buffer, x) ==
  SubSeq(buffer, x + 9 + 120 + Len(TrailerText) + Len(StartXref) + 1,
         Len(buffer) - Len(EofMark))

(***************************************************************************)
(* C15.  The output ends with a cross-reference section of six entries,    *)
(* the free entry and then one in-use entry for each of the objects 1..5   *)
(* in the order of their numbers, a trailer with /Size 6 and /Root 1 0 R,  *)
(* object 1 being the Catalog, and a startxref value that is the byte      *)
(* index of the keyword 'xref' from the start of the output.               *)
(***************************************************************************)
XrefSectionWellFormed ==
  result # None =>
    LET b == result.buffer
        x == XrefStart(b)
        after == AfterXref(b, x)
        field == StartXrefField(b, x)
    IN /\ SubSeq(b, x + 1, x + 9) = <<120, 114, 101, 102, 10, 48, 32, 54, 10>>
       /\ XrefEntry(b, x, 0)
            = [k \in 1..10 |-> 48] \o <<32, 54, 53, 53, 51, 53, 32, 102, 32, 10>>
       /\ \A n \in 1..5 :
            LET entry == XrefEntry(b, x, n)
            IN /\ \A k \in 1..10 : entry[k] \in 48..57
               /\ SubSeq(entry, 11, 20) = <<32, 48, 48, 48, 48, 48, 32, 110, 32, 10>>
               /\ DigitsValue(SubSeq(entry, 1, 10)) = ObjectStart(b, n)
       /\ SubSeq(after, 1, Len(TrailerText)) = TrailerText
       /\ FirstIndexOf(TrailerText, <<47, 83, 105, 122, 101, 32, 54, 32>>) >= 0
       /\ FirstIndexOf(TrailerText, <<47, 82, 111, 111, 116, 32, 49, 32, 48, 32, 82>>) >= 0
       /\ FirstIndexOf(SubSeq(b, ObjectStart(b, 1) + 1, ObjectStart(b, 2)),
                       <<47, 84, 121, 112, 101, 32, 47, 67, 97, 116, 97, 108, 111, 103>>) >= 0
       /\ SubSeq(after, Len(TrailerText) + 1, Len(TrailerText) + Len(StartXref)) = StartXref
       /\ SubSeq(b, Len(b) - Len(EofMark) + 1, Len(b)) = EofMark
       /\ field # <<>>
       /\ \A i \in DOMAIN field : field[i] \in 48..57
       /\ DigitsValue(field) = x

\* a document with multi-byte characters: the cross-reference section, right
\* after object 5, starts at a byte index that no count of characters gives
XrefSectionWitness ==
  /\ result # None
  /\ args.title = <<40, 237, 41>>
  /\ Len(args.rows) = 2
  /\ args.rows[2] = <<Str(<<40, 233, 8364>>), Null>>
  /\ DigitsValue(StartXrefField(result.buffer, XrefStart(result.buffer)))
       = XrefStart(result.buffer)
  /\ XrefStart(result.buffer) = ObjectStart(result.buffer, 5) + Len(Obj5)
  /\ Len(Utf8(result.content)) > Len(result.content)

\* the display string of a cell of a table: empty for a null or absent cell
Shown(cell) == IF cell.t \in {"null", "undef"} THEN <<>> ELSE String(cell)

\* the width of column i: the least number that no cell of the column exceeds
ColumnWidth(headers, rows, i) ==
  CHOOSE w \in 0..(Len(headers[i]) + 20) :
    /\ Len(headers[i]) <= w
    /\ \A r \in DOMAIN rows : Len(Shown(rows[r][i])) <= w
    /\ \/ Len(headers[i]) = w
       \/ \E r \in DOMAIN rows : Len(Shown(rows[r][i])) = w

\* the number of characters of a line before column i
ColumnStart(headers, rows, i) ==
  LET RECURSIVE Sum(_)
      Sum(j) == IF j = 0 THEN 0 ELSE Sum(j - 1) + ColumnWidth(headers, rows, j) + 2
  IN Sum(i - 1)

\* the part of a line that column i takes: the text of the cell, then spaces
\* up to the width of the column and two more
IsColumn(line, from, width, text) ==
  /\ Len(text) <= width
  /\ SubSeq(line, from + 1, from + Len(text)) = text
  /\ \A k \in (from + Len(text) + 1)..(from + width + 2) : k <= Len(line) /\ line[k] = 32

(***************************************************************************)
(* C16.  For a table whose rows have as many cells as there are headers,   *)
(* column i of the header line and of every data line takes w_i + 2        *)
(* characters, w_i being the greatest length among the header and the      *)
(* cells of column i (a null cell counting as empty): the cell in full,    *)
(* then spaces, two at least, and all these lines are of one length.       *)
(***************************************************************************)
ColumnsAligned ==
  (result # None /\ \A r \in DOMAIN args.rows : Len(args.rows[r]) = Len(args.headers)) =>
    LET h == args.headers
        rows == args.rows
        total == ColumnStart(h, rows, Len(h) + 1)
    IN /\ Len(result.lines) = Len(rows) + 2
       /\ \A k \in 2..Len(result.lines) : Len(result.lines[k]) = total
       /\ \A i \in DOMAIN h :
            /\ IsColumn(result.lines[2], ColumnStart(h, rows, i), ColumnWidth(h, rows, i), h[i])
            /\ \A r \in DOMAIN rows :
                 IsColumn(result.lines[r + 2], ColumnStart(h, rows, i),
                          ColumnWidth(h, rows, i), Shown(rows[r][i]))

\* the header of the second column is longer than its cells, a cell of the
\* first column is longer than its header
ColumnsAlignedWitness ==
  /\ result # None
  /\ args.headers = << <<97>>, <<237, 98>> >>
  /\ args.rows = << <<Str(<<40, 233, 8364>>), Null>>, <<Null, Str(<<92, 41>>)>> >>
  /\ result.lines[2] = <<97, 32, 32, 32, 32, 237, 98, 32, 32>>
  /\ result.lines[3] = <<40, 233, 8364, 32, 32, 32, 32, 32, 32>>
  /\ result.lines[4] = <<32, 32, 32, 32, 32, 92, 41, 32, 32>>

(***************************************************************************)
(* Where a reader of the document places the text (ISO 32000-1, 9.4.2):    *)
(* BT sets the start of the line to the origin, and `tx ty Td` moves to    *)
(* the start of the next line, offset from the start of the current line   *)
(* by (tx, ty).  The string of a Tj is shown at the start of the line.     *)
(***************************************************************************)
\* the tokens of s: its runs of characters other than the space and the line feed
Tokens(s) ==
  LET starts == { i \in DOMAIN s : s[i] \notin {32, 10} /\ (i = 1 \/ s[i - 1] \in {32, 10}) }
      EndOf(i) == CHOOSE j \in i..Len(s) :
                    /\ \A k \in i..j : s[k] \notin {32, 10}
                    /\ j = Len(s) \/ s[j + 1] \in {32, 10}
  IN [k \in 1..Cardinality(starts) |-> SubSeq(s, Nth(starts, k), EndOf(Nth(starts, k)))]

SignedValue(ds) ==
  IF ds # <<>> /\ ds[1] = 45 THEN 0 - DigitsValue(Tail(ds)) ELSE DigitsValue(ds)

\* the operands of the Td that precedes each string literal of the content
\* stream, from index `from` on; <<>> for a literal that no Td precedes
RECURSIVE ReadMoves(_, _, _)
ReadMoves(c, from, acc) ==
  LET opens == { i \in from..Len(c) : c[i] = 40 }
  IN IF opens = {} THEN acc
     ELSE LET open == Nth(opens, 1)
              closes == { i \in (open + 1)..Len(c) :
                            c[i] = 41 /\ Unescaped(SubSeq(c, open + 1, i), i - open) }
              toks == Tokens(SubSeq(c, from, open - 1))
              n == Len(toks)
          IN IF closes = {} THEN acc
             ELSE ReadMoves(c, Nth(closes, 1) + 1,
                    Append(acc, IF n >= 3 /\ toks[n] = <<84, 100>>
                                THEN <<SignedValue(toks[n - 2]), SignedValue(toks[n - 1])>>
                                ELSE <<>>))

Moves(content) == ReadMoves(content, 1, <<>>)

\* the start of the line after the first k moves
RECURSIVE LineStart(_, _)
LineStart(moves, k) ==
  IF k = 0 THEN <<0, 0>>
  ELSE <<LineStart(moves, k - 1)[1] + moves[k][1], LineStart(moves, k - 1)[2] + moves[k][2]>>

(***************************************************************************)
(* C17.  The lines are in the page in the order title, header, rows, none  *)
(* dropped, and the line numbered k from 0 is placed at x = 72,            *)
(* y = 770 - 14k, also when that is below 0.                               *)
(***************************************************************************)
LinesPlacedDownThePage ==
  result # None =>
    LET moves == Moves(result.content)
        lits == Literals(result.content)
    IN /\ Len(moves) = Len(result.lines)
       /\ Len(lits) = Len(result.lines)
       /\ \A k \in DOMAIN moves :
            /\ lits[k].text = result.lines[k]
            /\ moves[k] # <<>>
            /\ LineStart(moves, k) = <<72, startY - lineStep * (k - 1)>>

\* the scope or the report type of the request is missing or is none of the
\* two the program knows
Malformed(req) ==
  req.scope \notin {"user", "group"} \/ req.type \notin {"times", "receipts"}

NoReport(r) == r.table = <<>> /\ r.owners = <<>> /\ r.ctype \notin {"csv", "pdf"}

(***************************************************************************)
(* C18, as claimed.  A request whose scope or report type is missing or    *)
(* unknown is rejected with an error before any aggregation work, the      *)
(* lookup of the scopeId in the store included, and yields no report.      *)
(***************************************************************************)
MalformedRejectedBeforeLookup ==
  (resp.kind = "export" /\ Malformed(resp.req)) =>
    /\ resp.status >= 400
    /\ resp.work = <<>>
    /\ NoReport(resp)

(***************************************************************************)
(* C18, amended.  A request whose scope is missing or unknown is rejected  *)
(* with 404 before any aggregation work.  A request for a user or a group  *)
(* whose report type is missing or unknown is rejected with 404 after the  *)
(* lookup of its scopeId, as not found when the scopeId is unknown, and    *)
(* before any row is built.  Neither yields a report.                      *)
(***************************************************************************)
MalformedRejected ==
  (resp.kind = "export" /\ Malformed(resp.req)) =>
    /\ resp.status = 404
    /\ NoReport(resp)
    /\ IF resp.req.scope \notin {"user", "group"}
       THEN resp.work = <<>> /\ resp.body = Utf8(EndpointNoEncontrado)
       ELSE /\ resp.work = <<"find">>
            /\ resp.body = IF ~UnknownScopeId(data, resp.req) THEN Utf8(EndpointNoEncontrado)
                           ELSE IF resp.req.scope = "user" THEN Utf8(UsuarioNoEncontrado)
                           ELSE Utf8(GrupoNoEncontrado)

\* a group that is stored, asked for a report of a type that is none
MalformedRejectedWitness ==
  /\ resp.kind = "export"
  /\ resp.req = [scope |-> "group", id |-> "g1", type |-> "other", format |-> "pdf"]
  /\ groupIndex(data, "g1") = 1
  /\ resp.status = 404
  /\ resp.work = <<"find">>
  /\ resp.body = Utf8(EndpointNoEncontrado)

\* the number of records a report of the request is to show
RECURSIVE MemberRecordTotal(_, _, _, _)
MemberRecordTotal(d, members, type, n) ==
  IF n = 0 THEN 0
  ELSE MemberRecordTotal(d, members, type, n - 1)
       + (IF Resolves(d, members[n])
          THEN RecordCount(d.users[userIndex(d, members[n])], type) ELSE 0)

ExpectedRows(d, req) ==
  IF req.scope = "user" THEN RecordCount(d.users[userIndex(d, req.id)], req.type)
  ELSE MemberRecordTotal(d, d.groups[groupIndex(d, req.id)].members, req.type,
                         Len(d.groups[groupIndex(d, req.id)].members))

\* the number of places of s at which pat stands
Occurrences(s, pat) ==
  Cardinality({ i \in 0..(Len(s) - Len(pat)) : \A k \in 1..Len(pat) : s[i + k] = pat[k] })

\* a record the report of the request is to show makes its row builder throw
RowBuilderThrows(d, req) ==
  /\ req.type = "receipts"
  /\ \E i \in DOMAIN d.users :
       /\ \/ req.scope = "user" /\ d.users[i].id = req.id
          \/ /\ req.scope = "group"
             /\ \E m \in DOMAIN d.groups[groupIndex(d, req.id)].members :
                  d.groups[groupIndex(d, req.id)].members[m] = d.users[i].id
       /\ \E k \in DOMAIN d.users[i].receipts :
            LET r == d.users[i].receipts[k]
            IN \/ r.amount.t \notin {"num", "null", "undef"}
               \/ r.note.t \notin {"str", "null", "undef"} /\ Truthy(r.note)

(***************************************************************************)
(* C19.  An export request ends in one of two ways.  Either the status is  *)
(* 200 and the body is the rendering of the whole report: the table has    *)
(* the header row and one row for every record the report is to show, and  *)
(* the body has a line for each of them.  Or the status is an error, the   *)
(* body is an error message and nothing of a report is sent; this is what  *)
(* happens when the building of a row fails.                               *)
(***************************************************************************)
ReportWholeOrNothing ==
  resp.kind = "export" =>
    /\ \/ /\ resp.status = 200
          /\ ~Malformed(resp.req) /\ ~UnknownScopeId(data, resp.req)
          /\ resp.ctype = (IF resp.req.format = "pdf" THEN "pdf" ELSE "csv")
          /\ Len(resp.table) = 1 + ExpectedRows(data, resp.req)
          /\ Len(resp.owners) = ExpectedRows(data, resp.req)
          /\ IF resp.ctype = "pdf"
             THEN Occurrences(resp.body, TjClose) = Len(resp.table) + 1
             ELSE Occurrences(resp.body, <<10>>) = Len(resp.table) - 1
       \/ /\ resp.status \in {404, 500}
          /\ NoReport(resp)
          /\ resp.body \in { Utf8(UsuarioNoEncontrado), Utf8(GrupoNoEncontrado),
                             Utf8(EndpointNoEncontrado), Utf8(ErrorInterno) }
    /\ (~Malformed(resp.req) /\ ~UnknownScopeId(data, resp.req)
          /\ RowBuilderThrows(data, resp.req))
         => (resp.status = 500 /\ NoReport(resp) /\ resp.body = Utf8(ErrorInterno))

\* the group report of receipts fails on the receipt of a member whose amount
\* is a string: the answer is the error and nothing else
ReportWholeOrNothingWitness ==
  /\ resp.kind = "export"
  /\ resp.req = [scope |-> "group", id |-> "g1", type |-> "receipts", format |-> ""]
  /\ data.users[2].receipts[1].amount = Str(<<49, 50>>)
  /\ resp.status = 500
  /\ resp.work = <<"find", "rows">>
  /\ resp.table = <<>>
  /\ resp.body = Utf8(ErrorInterno)

(***************************************************************************)
(* Requests served while others wait for their body.  The handler of a     *)
(* POST reads the store, finds the user and then awaits the body: other    *)
(* requests are served in between.  When its body has come it pushes the   *)
(* receipt onto the store it read and writes that store to the file.       *)
(***************************************************************************)
MaxPending == 2

ConcRequests ==
  { [scope |-> "user", id |-> "u2", type |-> "receipts", format |-> ""],
    [scope |-> "group", id |-> "g1", type |-> "receipts", format |-> ""] }

ConcBodies ==
  { [category |-> Str(<<84>>), imageData |-> Str(<<105>>), note |-> Undefined,
     amount |-> Str(<<53>>)],
    [category |-> Undefined, imageData |-> Str(<<105>>), note |-> Undefined,
     amount |-> Undefined] }

InitConc ==
  /\ data = [users |-> Users([date |-> Iso(3000), category |-> Str(<<84>>),
                              note |-> Str(<<>>), amount |-> Num(1999)]),
             groups |-> Groups(<<"u3", "u9", "u1", "u2">>)]
  /\ now = 4000
  /\ resp = NoResponse
  /\ args = None
  /\ result = None
  /\ pending = <<>>

\* POST /api/users/:id/receipts, up to its await
BeginPost(uid) ==
  /\ Len(pending) < MaxPending
  /\ userIndex(readData(data), uid) # 0
       => Len(data.users[userIndex(data, uid)].receipts) < MaxReceipts
  /\ IF userIndex(readData(data), uid) = 0
     THEN resp' = answer("receipt", 404) /\ pending' = pending
     ELSE resp' = resp /\ pending' = Append(pending, [uid |-> uid, snap |-> readData(data)])
  /\ UNCHANGED <<data, now, args, result>>

\* POST /api/users/:id/receipts, from its await on, for the i-th waiting request
FinishPost(i, body) ==
  /\ i \in DOMAIN pending
  /\ pending' = SubSeq(pending, 1, i - 1) \o SubSeq(pending, i + 1, Len(pending))
  /\ IF ~Truthy(body.category) \/ ~Truthy(body.imageData)
     THEN resp' = answer("receipt", 400) /\ data' = data
     ELSE /\ data' = [pending[i].snap EXCEPT
                        !.users[userIndex(pending[i].snap, pending[i].uid)].receipts =
                          Append(@, newReceipt(body, Iso(now)))]
          /\ resp' = answer("receipt", 201)
  /\ UNCHANGED <<now, args, result>>

NextConc ==
  \/ \E req \in ConcRequests : Export(req)
  \/ \E uid \in {"u1", "u2", "u9"} : BeginPost(uid)
  \/ \E i \in 1..MaxPending, body \in ConcBodies : FinishPost(i, body)

SpecConc == InitConc /\ [][NextConc]_vars

\* the report r shows the records that store d holds for its request
ShowsStore(r, d) ==
  /\ Len(r.table) = 1 + ExpectedRows(d, r.req)
  /\ Len(r.owners) = ExpectedRows(d, r.req)
  /\ \A i \in DOMAIN d.users :
       LET at == { k \in DOMAIN r.owners : r.owners[k] = d.users[i].id }
           stored == StoredRecords(d.users[i], r.req.type)
       IN at # {} =>
            /\ Cardinality(at) = Len(stored)
            /\ \A j \in DOMAIN stored :
                 \E k \in at :
                   r.table[k + 1] = RecordCells(IF r.req.scope = "group"
                                                THEN <<Str(d.groups[groupIndex(d, r.req.id)].name)>>
                                                ELSE <<>>,
                                                d.users[i], stored[j], r.req.type)

(***************************************************************************)
(* C20.  A step that serves an export request leaves the store and the     *)
(* requests in flight as they are, and its report shows the records of the *)
(* store as it is at that step, whatever the requests in flight have read  *)
(* and whatever has been written since they read it.                       *)
(***************************************************************************)
ExportReadsStoreOnce ==
  [][ExportServed =>
       /\ data' = data
       /\ pending' = pending
       /\ resp'.status = 200
       /\ ShowsStore(resp', data)]_vars

\* a report served while a request is in flight that read the store before
\* the last write: the report shows the two receipts the store holds now
ExportReadsStoreOnceWitness ==
  /\ resp.kind = "export" /\ resp.status = 200
  /\ resp.req.scope = "user"
  /\ pending # <<>>
  /\ pending[1].snap # data
  /\ Len(data.users[2].receipts) = 2
  /\ Len(pending[1].snap.users[2].receipts) = 1
  /\ Len(resp.table) = 3

(***************************************************************************)
(* POST /api/register and POST /api/users/:id/clock                        *)
(***************************************************************************)
\* the user that POST /api/register stores, with the fields the claims read
newUser(id, body) ==
  [id |-> id, firstName |-> body.firstName.s, lastName |-> body.lastName.s,
   email |-> toLowerCase(body.email.s), password |-> body.password.s,
   times |-> <<>>, receipts |-> <<>>]

\* a toggle that rounds the start of a new entry up to the next full hour
clockToggleRoundedUp(times, at) ==
  IF Len(times) > 0 /\ ~Truthy(times[Len(times)].clockOut)
  THEN [times EXCEPT ![Len(times)].clockOut = Iso(at)]
  ELSE Append(times, [clockIn |-> Iso(60 * ((at + 59) \div 60)), clockOut |-> Null])

\* a toggle that looks at the first entry, not the last, to tell whether the
\* user is clocked in
clockToggleFirstEntry(times, at) ==
  IF Len(times) > 0 /\ ~Truthy(times[1].clockOut)
  THEN [times EXCEPT ![Len(times)].clockOut = Iso(at)]
  ELSE Append(times, [clockIn |-> Iso(at), clockOut |-> Null])

\* the toggle: the last entry is closed when it is open, a new one is
\* pushed otherwise
clockToggle(times, at) ==
  IF Len(times) > 0 /\ ~Truthy(times[Len(times)].clockOut)
  THEN [times EXCEPT ![Len(times)].clockOut = Iso(at)]
  ELSE Append(times, [clockIn |-> Iso(at), clockOut |-> Null])

MaxTimes == 2

MaxTicks == 4

ClockBody ==
  [email |-> Str(<<97, 64, 120>>), password |-> Str(<<112>>), firstName |-> Str(Beta),
   lastName |-> Str(<<66>>)]

ClockRequests ==
  { [scope |-> "user", id |-> "u1", type |-> "times", format |-> ""],
    [scope |-> "group", id |-> "g1", type |-> "times", format |-> ""] }

\* the user has just been registered and put in a group
InitClock ==
  /\ data = [users |-> <<newUser("u1", ClockBody)>>, groups |-> Groups(<<"u1">>)]
  /\ now = 4000
  /\ resp = NoResponse
  /\ args = None
  /\ result = None
  /\ pending = <<>>

\* time passes: the clock of the server never goes back
Tick ==
  /\ now < 4000 + 20 * MaxTicks
  /\ now' = now + 20
  /\ UNCHANGED <<data, resp, args, result, pending>>

\* POST /api/users/:id/clock: the handler has no await
ClockToggle(uid) ==
  /\ userIndex(readData(data), uid) # 0 =>
       LET times == data.users[userIndex(data, uid)].times
       IN (times = <<>> \/ Truthy(times[Len(times)].clockOut)) => Len(times) < MaxTimes
  /\ IF userIndex(readData(data), uid) = 0
     THEN resp' = answer("clock", 404) /\ data' = data
     ELSE /\ data' = [data EXCEPT !.users[userIndex(data, uid)].times = clockToggle(@, now)]
          /\ resp' = answer("clock", 200)
  /\ UNCHANGED <<now, args, result, pending>>

NextClock ==
  \/ Tick
  \/ \E uid \in {"u1", "u9"} : ClockToggle(uid)
  \/ \E req \in ClockRequests : Export(req)

SpecClock == InitClock /\ [][NextClock]_vars

\* the count of hundredths nearest to m minutes counted in hours
NearestHundredth(m) ==
  CHOOSE h \in 0..(2 * m + 1) : 60 * h <= 100 * m + 30 /\ 100 * m + 30 < 60 * h + 60

(***************************************************************************)
(* C21.  In a times report of a user or of a group the clock-out cell and  *)
(* the duration cell of an entry are both empty when the entry has no      *)
(* clockOut and neither is empty when it has one; the duration cell is     *)
(* then clockOut - clockIn in hours, written with two decimals.            *)
(***************************************************************************)
DurationCells ==
  (resp.kind = "export" /\ resp.status = 200 /\ resp.req.type = "times") =>
    LET entries == data.users[userIndex(data, "u1")].times
        c == IF resp.req.scope = "group" THEN 1 ELSE 0
    IN /\ Len(resp.table) = Len(entries) + 1
       /\ \A k \in DOMAIN entries :
            LET row == resp.table[k + 1]
            IN /\ row[c + 2] = Str(formatDateTime(entries[k].clockIn))
               /\ IF entries[k].clockOut.t \in {"null", "undef"}
                  THEN row[c + 3] = Str(<<>>) /\ row[c + 4] = Str(<<>>)
                  ELSE /\ row[c + 3] = Str(formatDateTime(entries[k].clockOut))
                       /\ row[c + 3] # Str(<<>>)
                       /\ row[c + 4] = Str(TwoDecimals(NearestHundredth(
                            entries[k].clockOut.s[1] - entries[k].clockIn.s[1])))

\* an entry of 40 minutes, 0.67 hours, and an entry still open
DurationCellsWitness ==
  /\ resp.kind = "export" /\ resp.status = 200
  /\ resp.req.scope = "group" /\ resp.req.type = "times"
  /\ Len(data.users[1].times) = 2
  /\ data.users[1].times[1] = [clockIn |-> Iso(4020), clockOut |-> Iso(4060)]
  /\ data.users[1].times[2].clockOut = Null
  /\ resp.table[2][5] = Str(<<48, 46, 54, 55>>)
  /\ resp.table[3][4] = Str(<<>>) /\ resp.table[3][5] = Str(<<>>)

(***************************************************************************)
(* C22.  After any sequence of clock toggles of a newly registered user,   *)
(* under a clock that never goes back, every stored entry that has a       *)
(* clockOut has clockOut >= clockIn, and no duration in a report is        *)
(* negative.                                                               *)
(***************************************************************************)
ClockOutNotBeforeClockIn ==
  /\ \A i \in DOMAIN data.users : \A k \in DOMAIN data.users[i].times :
       LET t == data.users[i].times[k]
       IN Truthy(t.clockOut) => Date(t.clockOut) >= Date(t.clockIn)
  /\ (resp.kind = "export" /\ resp.status = 200) =>
       \A k \in 2..Len(resp.table) :
         LET hours == resp.table[k][Len(resp.table[k])].s
         IN hours = <<>> \/ hours[1] # 45

\* an entry opened and closed in the same minute, and one closed an hour later
ClockOutWitness ==
  /\ Len(data.users[1].times) = 2
  /\ data.users[1].times[1] = [clockIn |-> Iso(4000), clockOut |-> Iso(4000)]
  /\ data.users[1].times[2] = [clockIn |-> Iso(4020), clockOut |-> Iso(4080)]
  /\ resp.kind = "export" /\ resp.status = 200
  /\ resp.table[3][4] = Str(<<49, 46, 48, 48>>)

Open(t) == ~Truthy(t.clockOut)

(***************************************************************************)
(* C23.  After any sequence of clock toggles of a newly registered user    *)
(* at most one entry of the user has no clockOut, and it is the last.  A   *)
(* toggle closes the last entry when it is open and appends an open entry  *)
(* otherwise; it changes no other entry and the clockIn of none.           *)
(***************************************************************************)
TogglesOpenAndClose ==
  [][\A i \in DOMAIN data.users :
       LET old == data.users[i].times
           new == data'.users[i].times
       IN /\ \A k \in DOMAIN new : Open(new[k]) => k = Len(new)
          /\ new # old =>
               IF old # <<>> /\ Open(old[Len(old)])
               THEN /\ Len(new) = Len(old)
                    /\ \A k \in 1..(Len(old) - 1) : new[k] = old[k]
                    /\ new[Len(old)] = [old[Len(old)] EXCEPT !.clockOut = Iso(now)]
               ELSE /\ Len(new) = Len(old) + 1
                    /\ \A k \in DOMAIN old : new[k] = old[k]
                    /\ new[Len(new)] = [clockIn |-> Iso(now), clockOut |-> Null]]_vars

\* a closed entry followed by an open one
TogglesWitness ==
  /\ Len(data.users[1].times) = 2
  /\ data.users[1].times[1] = [clockIn |-> Iso(4000), clockOut |-> Iso(4020)]
  /\ data.users[1].times[2] = [clockIn |-> Iso(4040), clockOut |-> Null]
  /\ resp = answer("clock", 200)

(***************************************************************************)
(* /api/groups and DELETE /api/users/:id, each request served alone        *)
(***************************************************************************)
RECURSIVE trim(_)
\* s.trim(), for the space character
trim(s) ==
  IF s = <<>> THEN s
  ELSE IF s[1] = 32 THEN trim(Tail(s))
  ELSE IF s[Len(s)] = 32 THEN trim(SubSeq(s, 1, Len(s) - 1))
  ELSE s

\* list.filter(x => keep(x)) for a list of ids, keeping all but one id
RECURSIVE without(_, _)
without(list, id) ==
  IF list = <<>> THEN <<>>
  ELSE IF list[1] = id THEN without(Tail(list), id)
  ELSE <<list[1]>> \o without(Tail(list), id)

\* list.filter(g => g.id !== id) for a list of groups
RECURSIVE withoutGroup(_, _)
withoutGroup(groups, id) ==
  IF groups = <<>> THEN <<>>
  ELSE IF groups[1].id = id THEN withoutGroup(Tail(groups), id)
  ELSE <<groups[1]>> \o withoutGroup(Tail(groups), id)

\* list.filter(u => u.id !== id) for a list of users
RECURSIVE withoutUser(_, _)
withoutUser(users, id) ==
  IF users = <<>> THEN <<>>
  ELSE IF users[1].id = id THEN withoutUser(Tail(users), id)
  ELSE <<users[1]>> \o withoutUser(Tail(users), id)

includes(list, id) == \E k \in DOMAIN list : list[k] = id

\* the member is pushed and the other groups are left as they are
addMemberKeepOthers(groups, gi, uid) ==
  IF includes(groups[gi].members, uid) THEN groups
  ELSE [groups EXCEPT ![gi].members = Append(@, uid)]

\* POST /api/groups/:id/users for the group found at index gi: a user who is
\* not yet a member is taken out of every group with another id, then pushed
addMember(groups, gi, uid) ==
  IF includes(groups[gi].members, uid) THEN groups
  ELSE [g \in DOMAIN groups |->
          IF g = gi THEN [groups[g] EXCEPT !.members = Append(@, uid)]
          ELSE IF groups[g].id # groups[gi].id /\ includes(groups[g].members, uid)
          THEN [groups[g] EXCEPT !.members = without(@, uid)]
          ELSE groups[g]]

MaxGroups == 2

GroupIds == {"g1", "g2"}

GroupNames == {<<>>, <<65>>, <<97>>, <<32, 66>>}

\* "" stands for a body without userId
MemberInputs == {"u1", "u2", "u9", ""}

UserBody(email) ==
  [email |-> Str(email), password |-> Str(<<112>>), firstName |-> Str(Beta),
   lastName |-> Str(<<66>>)]

\* two registered users and no group
InitGroups ==
  /\ data = [users |-> <<newUser("u1", UserBody(<<97>>)), newUser("u2", UserBody(<<98>>))>>,
             groups |-> <<>>]
  /\ now = 4000
  /\ resp = NoResponse
  /\ args = None
  /\ result = None
  /\ pending = <<>>

\* POST /api/groups; the id is whatever Math.random gives
CreateGroup(id, name) ==
  /\ Len(data.groups) < MaxGroups
  /\ args' = [op |-> "createGroup", gid |-> id, uid |-> ""]
  /\ IF trim(name) = <<>>
        \/ \E g \in DOMAIN data.groups :
             toLowerCase(data.groups[g].name) = toLowerCase(trim(name))
     THEN resp' = answer("group", 400) /\ data' = data
     ELSE /\ data' = [data EXCEPT !.groups =
                        Append(@, [id |-> id, name |-> trim(name), members |-> <<>>])]
          /\ resp' = answer("group", 201)
  /\ UNCHANGED <<now, result, pending>>

\* POST /api/groups/:id/users
AddUser(gid, uid) ==
  /\ args' = [op |-> "addUser", gid |-> gid, uid |-> uid]
  /\ IF groupIndex(readData(data), gid) = 0
     THEN resp' = answer("group", 404) /\ data' = data
     ELSE IF uid = ""
     THEN resp' = answer("group", 400) /\ data' = data
     ELSE /\ data' = [data EXCEPT !.groups = addMember(@, groupIndex(data, gid), uid)]
          /\ resp' = answer("group", 200)
  /\ UNCHANGED <<now, result, pending>>

\* DELETE /api/groups/:id/users/:userId
RemoveUser(gid, uid) ==
  /\ args' = [op |-> "removeUser", gid |-> gid, uid |-> uid]
  /\ IF groupIndex(readData(data), gid) = 0
     THEN resp' = answer("group", 404) /\ data' = data
     ELSE /\ data' = [data EXCEPT !.groups[groupIndex(data, gid)].members = without(@, uid)]
          /\ resp' = answer("group", 200)
  /\ UNCHANGED <<now, result, pending>>

\* DELETE /api/groups/:id
DeleteGroup(gid) ==
  /\ args' = [op |-> "deleteGroup", gid |-> gid, uid |-> ""]
  /\ IF groupIndex(readData(data), gid) = 0
     THEN resp' = answer("group", 404) /\ data' = data
     ELSE /\ data' = [data EXCEPT !.groups = withoutGroup(@, gid)]
          /\ resp' = answer("group", 200)
  /\ UNCHANGED <<now, result, pending>>

\* DELETE /api/users/:id, confirmed with the email of the account
DeleteUser(uid, email) ==
  /\ args' = [op |-> "deleteUser", gid |-> "", uid |-> uid]
  /\ IF userIndex(readData(data), uid) = 0
     THEN resp' = answer("user", 404) /\ data' = data
     ELSE IF toLowerCase(email) = <<>>
     THEN resp' = answer("user", 400) /\ data' = data
     ELSE IF toLowerCase(email) # data.users[userIndex(data, uid)].email
     THEN resp' = answer("user", 403) /\ data' = data
     ELSE /\ data' = [users |-> withoutUser(data.users, uid),
                      groups |-> [g \in DOMAIN data.groups |->
                                    [data.groups[g] EXCEPT !.members = without(@, uid)]]]
          /\ resp' = answer("user", 200)
  /\ UNCHANGED <<now, result, pending>>

NextGroups ==
  \/ \E id \in GroupIds, name \in GroupNames : CreateGroup(id, name)
  \/ \E gid \in GroupIds, uid \in MemberInputs : AddUser(gid, uid)
  \/ \E gid \in GroupIds, uid \in MemberInputs \ {""} : RemoveUser(gid, uid)
  \/ \E gid \in GroupIds : DeleteGroup(gid)
  \/ \E uid \in {"u1", "u2", "u9"}, email \in {<<>>, <<65>>, <<98>>} : DeleteUser(uid, email)

SpecGroups == InitGroups /\ [][NextGroups]_vars

\* the places, group and position, where a user id is listed as a member
Memberships(d, uid) ==
  { p \in (DOMAIN d.groups) \X (1..3) :
      p[2] \in DOMAIN d.groups[p[1]].members /\ d.groups[p[1]].members[p[2]] = uid }

\* the groups, as indices, that list a user id as a member
GroupsOf(d, uid) == { p[1] : p \in Memberships(d, uid) }

(***************************************************************************)
(* C24.  From a store without groups, after any sequence of group          *)
(* operations served one after the other (create group, add user, remove   *)
(* user, delete group, delete user) every user id is listed in at most one *)
(* group and at most once there; after a user is added to a group the user *)
(* is a member of that group and of no other, and the groups of the other   *)
(* users are as before.                                                    *)
(***************************************************************************)
OneGroupPerUser ==
  [][/\ \A g \in DOMAIN data'.groups : Len(data'.groups[g].members) <= 3
     /\ \A uid \in MemberInputs : Cardinality(Memberships(data', uid)) <= 1
     /\ (args'.op = "addUser" /\ resp'.status = 200) =>
          /\ Memberships(data', args'.uid) # {}
          /\ \A p \in Memberships(data', args'.uid) :
               p[1] = groupIndex(data', args'.gid)
          /\ \A uid \in MemberInputs \ {args'.uid} :
               GroupsOf(data', uid) = GroupsOf(data, uid)]_vars

\* u1 was a member of the first group and has just been added to the second
OneGroupPerUserWitness ==
  /\ args # None /\ args.op = "addUser" /\ args.uid = "u1" /\ resp.status = 200
  /\ Len(data.groups) = 2
  /\ data.groups[1].members = <<"u2">>
  /\ data.groups[2].members = <<"u9", "u1">>

(***************************************************************************)
(* Receipt uploads waiting for their body while clock toggles are served   *)
(***************************************************************************)
NextWrites ==
  \/ \E uid \in {"u1", "u9"} : BeginPost(uid)
  \/ \E i \in 1..MaxPending, body \in ConcBodies : FinishPost(i, body)
  \/ \E uid \in {"u1", "u9"} : ClockToggle(uid)

SpecWrites == InitClock /\ [][NextWrites]_vars

\* everything stored in d is still stored in e: the receipts of d are the
\* first receipts of e, and the time entries of d are the first entries of e,
\* except that an entry open in d may be closed in e
Kept(d, e) ==
  /\ Len(e.users) = Len(d.users)
  /\ \A i \in DOMAIN d.users :
       /\ Len(e.users[i].receipts) >= Len(d.users[i].receipts)
       /\ SubSeq(e.users[i].receipts, 1, Len(d.users[i].receipts)) = d.users[i].receipts
       /\ Len(e.users[i].times) >= Len(d.users[i].times)
       /\ \A k \in DOMAIN d.users[i].times :
            /\ e.users[i].times[k].clockIn = d.users[i].times[k].clockIn
            /\ Truthy(d.users[i].times[k].clockOut) =>
                 e.users[i].times[k] = d.users[i].times[k]

emailRegistered(d, email) == \E i \in DOMAIN d.users : d.users[i].email = email.s

MaxUsers == 2

UserIds == {"u1", "u2", "u3"}

RegisterBodies ==
  { [email |-> e, password |-> p, firstName |-> Str(Beta), lastName |-> Str(<<66>>)] :
      e \in {Undefined, Str(<<97, 64, 120>>), Str(<<65, 64, 120>>), Str(<<98, 64, 120>>)},
      p \in {Undefined, Str(<<112>>)} }

\* a store without users
InitRegister ==
  /\ data = [users |-> <<>>, groups |-> <<>>]
  /\ now = 4000
  /\ resp = NoResponse
  /\ args = None
  /\ result = None
  /\ pending = <<>>

\* POST /api/register; the id is whatever Math.random gives
Register(id, body) ==
  /\ Len(data.users) < MaxUsers
  /\ args' = body
  /\ IF ~Truthy(body.email) \/ ~Truthy(body.password) \/ ~Truthy(body.firstName)
        \/ ~Truthy(body.lastName)
     THEN resp' = answer("register", 400) /\ data' = data
     ELSE IF emailRegistered(readData(data), body.email)
     THEN resp' = answer("register", 400) /\ data' = data
     ELSE /\ data' = [data EXCEPT !.users = Append(@, newUser(id, body))]
          /\ resp' = answer("register", 201)
  /\ UNCHANGED <<now, result, pending>>

\* POST /api/login: the email sent is lower-cased before the lookup
Login(body) ==
  /\ args' = body
  /\ LET email == IF Truthy(body.email) THEN toLowerCase(body.email.s) ELSE <<>>
         found == { i \in DOMAIN data.users : data.users[i].email = email }
     IN IF found = {} \/ body.password.t # "str"
           \/ \E i \in found : (\A j \in found : i <= j)
                                /\ data.users[i].password # body.password.s
        THEN resp' = answer("login", 401)
        ELSE resp' = answer("login", 200)
  /\ UNCHANGED <<data, now, result, pending>>

NextRegister ==
  \/ \E id \in UserIds, body \in RegisterBodies : Register(id, body)
  \/ \E body \in RegisterBodies : Login(body)

SpecRegister == InitRegister /\ [][NextRegister]_vars

(***************************************************************************)
(* C26.  After any sequence of registration requests served one after the  *)
(* other no two stored users have the same stored email address.           *)
(***************************************************************************)
StoredEmailsDistinct ==
  \A i, j \in DOMAIN data.users : data.users[i].email = data.users[j].email => i = j
====
